---- MODULE Spec2Model ----
(***************************************************************************)
(* Database synchronisation of the highlights-fetch-service:               *)
(*   app/services/sync_state.py  SyncState (lock-protected state machine)  *)
(*   app/services/db_sync.py     DatabaseSyncService (freshness + sync)    *)
(*   app/api/sync_status.py      check_and_sync, run_sync_in_background    *)
(*   app/api/endpoints.py        sync_data, get_books (direct download)    *)
(*                                                                         *)
(* Threads: the asyncio event loop runs the async handlers one at a time   *)
(* (variable lpc); the thread pool (Workers) runs background tasks and the *)
(* synchronous endpoints.  Every SyncState method is one atomic step (it   *)
(* holds _state_lock for its whole body); every Blob Store or filesystem   *)
(* call is a step of its own, so threads interleave between them.          *)
(*                                                                         *)
(* Times: upload timestamps and the clock are integer milliseconds; a      *)
(* float number of seconds (file mtimes, get_b2_file_mtime) is the record  *)
(* [s, f] of whole seconds and thousandths.                                *)
(***************************************************************************)
EXTENDS Integers, FiniteSets, Sequences, TLC

\* ------------------------------------------------------------------ bounds
\* the clock at start-up and the time between uploads, in milliseconds
StartMs == 5000
TickMs == 1000

\* the remote object was uploaded before the service started
UploadedMs == StartMs - 400

\* the events of a run: requests made, calls that go wrong, uploads
MaxEvents == 3

\* the thread pool's threads
Workers == {"w1", "w2"}

\* ------------------------------------------------------------------- times
MsPerSecond == 1000

\* upload_timestamp / 1000.0
Secs(ms) == [s |-> ms \div MsPerSecond, f |-> ms % MsPerSecond]

Zero == [s |-> 0, f |-> 0]

TimeGt(a, b) == a.s > b.s \/ (a.s = b.s /\ a.f > b.f)

PlusSeconds(t, n) == [s |-> t.s + n, f |-> t.f]

\* a float number of seconds, in milliseconds (used to state properties)
ToMs(t) == t.s * MsPerSecond + t.f

\* ------------------------------------------------------------------- files
\* ver: which upload the bytes come from; complete: every byte is there
NoFile == [exists |-> FALSE, ver |-> 0, size |-> 0, mtime |-> Zero,
           complete |-> TRUE]

SizeOf(ver) == ver + 1

CompleteFile(ver, mtime) ==
    [exists |-> TRUE, ver |-> ver, size |-> SizeOf(ver), mtime |-> mtime,
     complete |-> TRUE]

\* a file opened 'wb' whose bytes have not all arrived
PartialFile(ver, mtime) ==
    [exists |-> TRUE, ver |-> ver, size |-> 0, mtime |-> mtime,
     complete |-> FALSE]

\* an existing file of length 0 (mkstemp's result, an empty download)
EmptyFile(mtime) ==
    [exists |-> TRUE, ver |-> 0, size |-> 0, mtime |-> mtime,
     complete |-> TRUE]

\* -------------------------------------------------------------- SyncState
NoneStr == "None"
NoError == <<>>
NoSize == -1
NoTime == -1

Message(text, mb) == [text |-> text, mb |-> mb]

InitialSyncState ==
    [status |-> "idle", message |-> Message("", NoSize), progress |-> NoneStr,
     error |-> NoError, last_sync_time |-> NoTime, file_size_mb |-> NoSize]

set_checking(st) ==
    [st EXCEPT !.status = "checking",
               !.message = Message("Checking for updates...", NoSize),
               !.error = NoError, !.progress = NoneStr]

set_downloading(st, file_size_mb) ==
    [st EXCEPT !.status = "downloading",
               !.message = Message("Downloading database...", NoSize),
               !.error = NoError, !.progress = "0.0",
               !.file_size_mb = file_size_mb]

\* "if file_size_mb" is false for None and for 0.0
set_completed(st, file_size_mb, t) ==
    [st EXCEPT !.status = "completed",
               !.message = IF file_size_mb = NoSize \/ file_size_mb = 0
                           THEN Message("Sync completed", NoSize)
                           ELSE Message("Sync completed", file_size_mb),
               !.error = NoError, !.progress = "100.0",
               !.last_sync_time = t, !.file_size_mb = file_size_mb]

\* an up-to-date transition that reports Completed
set_up_to_date_Completed(st) ==
    [st EXCEPT !.status = "completed",
               !.message = Message("Database is up to date", NoSize),
               !.progress = NoneStr, !.error = NoError]

set_up_to_date(st) ==
    [st EXCEPT !.status = "up_to_date",
               !.message = Message("Database is up to date", NoSize),
               !.error = NoError, !.progress = NoneStr]

\* an error transition that leaves progress as it was
set_error_KeepProgress(st, error_message) ==
    [st EXCEPT !.status = "error", !.message = Message("Sync failed", NoSize),
               !.error = error_message]

set_error(st, error_message) ==
    [st EXCEPT !.status = "error", !.message = Message("Sync failed", NoSize),
               !.error = error_message, !.progress = NoneStr]

\* a reset to the state of a new object
set_idle_Fresh(st) == InitialSyncState

\* a reset that leaves the error of the last failure
set_idle_KeepError(st) ==
    [st EXCEPT !.status = "idle", !.message = Message("", NoSize),
               !.progress = NoneStr]

set_idle(st) ==
    [st EXCEPT !.status = "idle", !.message = Message("", NoSize),
               !.error = NoError, !.progress = NoneStr]

get_state(st) == st

\* a busy test that counts only Downloading
is_busy_DownloadingOnly(st) == st.status = "downloading"

is_busy(st) == st.status \in {"checking", "downloading"}

\* --------------------------------------------------- Freshness Comparator
get_local_file_mtime(file) == IF ~file.exists THEN Zero ELSE file.mtime

\* the Blob Store's metadata lookup: its outcome is "info" (the metadata),
\* "none" (no such object) or "raise"
InfoOutcomes == {"info", "none", "raise"}

get_file_info(outcome, rem) ==
    IF outcome = "info"
    THEN [found |-> TRUE, upload_timestamp |-> rem.ts, size |-> SizeOf(rem.ver)]
    ELSE [found |-> FALSE, upload_timestamp |-> 0, size |-> 0]

\* the upload timestamp in whole seconds (integer division)
get_b2_file_mtime_Floor(outcome, rem) ==
    IF outcome = "info"
    THEN [s |-> rem.ts \div MsPerSecond, f |-> 0]
    ELSE Zero

get_b2_file_mtime(outcome, rem) ==
    IF outcome = "raise" THEN Zero
    ELSE IF get_file_info(outcome, rem).found
         THEN Secs(get_file_info(outcome, rem).upload_timestamp)
         ELSE Zero

\* a staleness test without the one-second slack: remote >= local
is_local_cache_stale_Ge(local_mtime, b2_mtime) ==
    IF local_mtime = Zero THEN TRUE
    ELSE IF b2_mtime = Zero THEN FALSE
    ELSE ~TimeGt(local_mtime, b2_mtime)

is_local_cache_stale(local_mtime, b2_mtime) ==
    IF local_mtime = Zero THEN TRUE
    ELSE IF b2_mtime = Zero THEN FALSE
    ELSE TimeGt(b2_mtime, PlusSeconds(local_mtime, 1))

\* --------------------------------------------------------------- variables
VARIABLES
    now,          \* the clock, in milliseconds
    remote,       \* the Blob Store's kobo/KoboReader.sqlite: [ver, ts]
    replica,      \* the file at settings.LOCAL_DB_PATH
    tmp,          \* tmp[w]: the temporary file of w's running attempt
    stray,        \* temporary files left behind by finished attempts
    sync_state,   \* the SyncState singleton
    pending,      \* background tasks added and not yet started
    events,       \* requests, failing calls and uploads so far
    last_check,   \* the last is_local_cache_stale(): [avail, stale]
    op,           \* op[w]: what worker w runs
    pc,           \* pc[w]: where it is
    loc,          \* loc[w]: its local variables (and what it has done)
    lpc,          \* the event loop's handler position
    resp,         \* the last response of check_and_sync
    obj,          \* the SyncState object's attributes, one by one
    holder,       \* the thread inside "with self._state_lock"
    thread,       \* thread[t]: the SyncState method t is in
    committed,    \* the attributes as the last finished method left them
    ncalls,       \* SyncState methods called so far
    content,      \* the replica's content table, in rowid order
    Bookmark,     \* the replica's Bookmark table, in rowid order
    out,          \* the last query made and what it returned
    state,        \* get_sync_status: its local state, once read
    response,     \* the last response of get_sync_status
    startup       \* lifespan: its position and its local variables

syncvars == <<now, remote, replica, tmp, stray, sync_state, pending, events,
              last_check, op, pc, loc, lpc, resp>>

lockvars == <<obj, holder, thread, committed, ncalls>>

kobovars == <<content, Bookmark, out>>

statusvars == <<state, response, startup>>

vars == <<syncvars, lockvars, kobovars, statusvars>>

\* what the sync functions and the handlers leave alone
nonsync == <<lockvars, kobovars, statusvars>>

\* what the statements inside SyncState's methods leave alone
nonlock == <<syncvars, kobovars, statusvars>>

\* what a query of the replica leaves alone
nonkobo == <<syncvars, lockvars, statusvars>>

NoCheck == [valid |-> FALSE, avail |-> FALSE, stale |-> FALSE]

\* what a SyncState transition leaves in status, error and progress
Written(st) == [status |-> st.status, error |-> st.error,
                progress |-> st.progress]

\* b2_mtime, size: the locals of the running sync; result: what it returned;
\* passed: it passed the busy check; last: the last transition it made;
\* exc: the exception it caught; ver0: the remote version when it started;
\* touched: it changed the replica path; installed: the mtime of the file
\* it moved there; rmfail: its os.remove failed; http: the status returned
InitLoc ==
    [b2_mtime |-> Zero, result |-> "none", passed |-> FALSE,
     last |-> Written(InitialSyncState), wrote |-> FALSE, exc |-> "none",
     ver0 |-> 0, touched |-> FALSE, installed |-> Zero, rmfail |-> FALSE,
     size |-> 0, http |-> 0]

\* a response of check_and_sync: initiated, message, and the status it
\* carries (of get_state(), or the literal "checking")
NoResp == [valid |-> FALSE, initiated |-> FALSE, message |-> "",
           status |-> "idle"]

\* the threads that call SyncState's methods: a pool thread running the
\* background sync, and the event loop running the handlers
Threads == {"bg", "loop"}

\* the attributes in the order get_state reads them
Fields == <<"status", "message", "progress", "error", "last_sync_time",
            "file_size_mb">>

\* a dict under construction: no key set yet
NoDict == [f \in {Fields[i] : i \in 1..Len(Fields)} |-> <<"unset">>]

\* no value returned yet; a returned value is the dict (val), or a
\* reference to the object itself (ref)
NoRet == [valid |-> FALSE, ref |-> FALSE, val |-> NoDict, base |-> NoDict]

\* t is in no method
InitThread ==
    [pc |-> "idle", call |-> "none", arg |-> NoSize, k |-> 0,
     snap |-> NoDict, base |-> NoDict, ret |-> NoRet]

\* no query made yet
NoOut == [call |-> "none"]

\* an empty replica, not queried
KoboStart ==
    /\ content = <<>>
    /\ Bookmark = <<>>
    /\ out = NoOut

\* get_sync_status not called yet
NoState == [valid |-> FALSE, dict |-> InitialSyncState]

NoStatus == [valid |-> FALSE, state |-> InitialSyncState,
             is_syncing |-> FALSE, needs_reload |-> FALSE, moved |-> FALSE]

\* lifespan before its first statement; replica0: the file at the
\* canonical path at that time
NotStarted ==
    [pc |-> "start", local_mtime |-> Zero, sync_result |-> "none",
     final_mtime |-> Zero, replica0 |-> NoFile]

StatusStart ==
    /\ state = NoState
    /\ response = NoStatus
    /\ startup = NotStarted

LockStart ==
    /\ obj = InitialSyncState
    /\ holder = "none"
    /\ thread = [t \in Threads |-> InitThread]
    /\ committed = InitialSyncState
    /\ ncalls = 0

\* the replica at start-up: none, or a complete file stamped age ms before
\* the remote object's upload (0: the copy of that upload, stamped by the
\* sync that fetched it; otherwise the copy of an older upload)
InitAges == {0, 1000, 1500}

Init ==
    /\ now = StartMs
    /\ remote = [ver |-> 1, ts |-> UploadedMs]
    /\ replica \in {NoFile} \cup
          {CompleteFile(IF age = 0 THEN 1 ELSE 0, Secs(UploadedMs - age)) :
             age \in InitAges}
    /\ tmp = [w \in Workers |-> NoFile]
    /\ stray = 0
    /\ sync_state = InitialSyncState
    /\ pending = 0
    /\ events = 0
    /\ last_check = NoCheck
    /\ op = [w \in Workers |-> "idle"]
    /\ pc = [w \in Workers |-> "idle"]
    /\ loc = [w \in Workers |-> InitLoc]
    /\ lpc = "idle"
    /\ resp = NoResp
    /\ LockStart
    /\ KoboStart
    /\ StatusStart

\* ------------------------------------------------------------ environment
\* n more events happen, if the run has room for them
Spend(n) ==
    /\ events + n <= MaxEvents
    /\ events' = events + n

\* time passes and the e-reader uploads a new version of the database
Upload ==
    /\ Spend(1)
    /\ now' = now + TickMs
    /\ remote' = [ver |-> remote.ver + 1, ts |-> now']
    /\ UNCHANGED <<replica, tmp, stray, sync_state, pending, last_check, op,
                   pc, loc, lpc, resp>>
    /\ UNCHANGED nonsync

\* --------------------------------------------------------- worker helpers
Free(w) == op[w] = "idle" \/ pc[w] = "done"

\* the pool gives a new operation to an idle thread; which one does not
\* matter, so it is the first
FirstFree(w) == Free(w) /\ (w = "w1" \/ ~Free("w1"))

\* worker w starts operation o at position p; a temporary file its last
\* attempt left behind stays in the directory
Begin(w, o, p, l) ==
    /\ FirstFree(w)
    /\ op' = [op EXCEPT ![w] = o]
    /\ pc' = [pc EXCEPT ![w] = p]
    /\ loc' = [loc EXCEPT ![w] = [l EXCEPT !.ver0 = remote.ver]]
    /\ tmp' = [tmp EXCEPT ![w] = NoFile]
    /\ stray' = IF tmp[w].exists THEN stray + 1 ELSE stray

Goto(w, p) == pc' = [pc EXCEPT ![w] = p]

\* a SyncState transition made by w's sync_with_state_tracking
Write(l, st) == [l EXCEPT !.last = Written(st), !.wrote = TRUE]

\* the record of one is_local_cache_stale() call: whether the Blob Store
\* gave the upload timestamp, and the value returned
Checked(outcome, stale) ==
    [valid |-> TRUE, avail |-> outcome = "info", stale |-> stale]

\* a call may go wrong (raise, or yield no usable file): one more event
Fault(wrong) == Spend(IF wrong THEN 1 ELSE 0)

\* the exception messages of the calls that can raise
Exceptions == {"B2 Connection failed", "mkstemp failed", "download error",
               "Downloaded file not found", "Downloaded file is empty",
               "Downloaded file is missing or empty", "utime failed",
               "move failed"}

\* f"Download failed: {str(e)}" and str(e)
DownloadFailed(e) == <<"Download failed: ", e>>

Str(e) == <<e>>

\* ------------------------------------------------- filesystem, Blob Store
\* tempfile.mkstemp(dir=dirname(local_path)) and os.close: a new empty file
mkstemp == EmptyFile(Secs(now))

DownloadOutcomes == {"ok", "empty", "missing", "raise"}

\* b2_service.download_file(name, path), as the file at path is left:
\* every byte of the remote object, an empty file, no file, or the bytes
\* that had arrived when the call raised
download_file(outcome) ==
    CASE outcome = "ok" -> CompleteFile(remote.ver, Secs(now))
      [] outcome = "empty" -> EmptyFile(Secs(now))
      [] outcome = "missing" -> NoFile
      [] outcome = "raise" -> PartialFile(remote.ver, Secs(now))

\* no stamping of the temporary file
os_utime_Skip(file, b2_mtime) == file

\* os.utime(temp_file, (b2_mtime, b2_mtime)), done only if b2_mtime > 0
os_utime(file, b2_mtime) ==
    IF TimeGt(b2_mtime, Zero) THEN [file EXCEPT !.mtime = b2_mtime] ELSE file

\* a verification that accepts any file
VerifyTracked_Skip(file) == "none"

\* the checks sync_with_state_tracking makes on the downloaded temporary
\* file: the message of the exception raised, or "none"
VerifyTracked(file) ==
    IF ~file.exists THEN "Downloaded file not found"
    ELSE IF file.size = 0 THEN "Downloaded file is empty"
    ELSE "none"

\* no verification of the downloaded file
VerifyPlain_Skip(file) == "none"

\* the check sync_if_needed makes
VerifyPlain(file) ==
    IF ~file.exists \/ file.size = 0
    THEN "Downloaded file is missing or empty"
    ELSE "none"

InstallOutcomes == {"ok", "utime", "move"}

\* what stamping and the move raise for a verified temporary file
InstallError(b2_mtime, outcome) ==
    IF outcome = "utime" /\ TimeGt(b2_mtime, Zero) THEN "utime failed"
    ELSE IF outcome = "move" THEN "move failed"
    ELSE "none"

\* shutil.move(temp_file, self.local_path): one rename in one directory
shutil_move(file) == file

\* a finally block that removes nothing
Finally_Keep(file, removed) == file

\* the finally block: os.remove(temp_file) if temp_file is set and exists;
\* a failing remove is logged and the file stays
Finally(file, removed) == IF file.exists /\ ~removed THEN file ELSE NoFile

\* ------------------------------------------- sync_with_state_tracking
\* run_sync_in_background starts on a pool thread and calls
\* sync_with_state_tracking, whose first statement is the busy check
run_sync_in_background(w) ==
    /\ pending > 0
    /\ pending' = pending - 1
    /\ IF is_busy(sync_state)
       THEN Begin(w, "tracked", "done", [InitLoc EXCEPT !.result = "false"])
       ELSE Begin(w, "tracked", "set_checking",
                  [InitLoc EXCEPT !.passed = TRUE])
    /\ UNCHANGED <<now, remote, replica, sync_state, events, last_check, lpc,
                   resp>>
    /\ UNCHANGED nonsync

T_SetChecking(w) ==
    /\ op[w] = "tracked" /\ pc[w] = "set_checking"
    /\ sync_state' = set_checking(sync_state)
    /\ loc' = [loc EXCEPT ![w] = Write(@, sync_state')]
    /\ Goto(w, "check_stale")
    /\ UNCHANGED <<now, remote, replica, tmp, stray, pending, events,
                   last_check, op, lpc, resp>>
    /\ UNCHANGED nonsync

\* is_local_cache_stale(); when it is false: set_up_to_date, return False
T_CheckStale(w) ==
    /\ op[w] = "tracked" /\ pc[w] = "check_stale"
    /\ \E o \in InfoOutcomes :
         LET local == get_local_file_mtime(replica)
             stale == is_local_cache_stale(local, get_b2_file_mtime(o, remote))
         IN /\ last_check' = Checked(o, stale)
            /\ IF stale
               THEN /\ Goto(w, "prepare")
                    /\ UNCHANGED <<sync_state, loc>>
               ELSE /\ sync_state' = set_up_to_date(sync_state)
                    /\ loc' = [loc EXCEPT ![w] =
                                  [Write(@, sync_state') EXCEPT
                                      !.result = "false"]]
                    /\ Goto(w, "done")
    /\ UNCHANGED <<now, remote, replica, tmp, stray, pending, events, op,
                   lpc, resp>>
    /\ UNCHANGED nonsync

\* except blocks that do not call set_error
T_Fail_Silent(w, e, inner, file, removed) ==
    /\ tmp' = [tmp EXCEPT ![w] = Finally(file, removed)]
    /\ loc' = [loc EXCEPT ![w].exc = e, ![w].result = "false",
                          ![w].rmfail = file.exists /\ ~removed]
    /\ Goto(w, "done")
    /\ UNCHANGED sync_state

\* the except blocks and the finally block of sync_with_state_tracking:
\* set_error (inner: "Download failed: ..."), the temporary file removed if
\* it can be, return False
T_Fail(w, e, inner, file, removed) ==
    /\ sync_state' = set_error(sync_state,
                               IF inner THEN DownloadFailed(e) ELSE Str(e))
    /\ tmp' = [tmp EXCEPT ![w] = Finally(file, removed)]
    /\ loc' = [loc EXCEPT ![w] =
                  [Write(@, sync_state') EXCEPT
                      !.exc = e, !.result = "false",
                      !.rmfail = file.exists /\ ~removed]]
    /\ Goto(w, "done")

\* b2_mtime = get_b2_file_mtime(); file_info = get_file_info(); then
\* set_downloading(file_size_mb); a raising get_file_info reaches the outer
\* except
T_Prepare(w) ==
    /\ op[w] = "tracked" /\ pc[w] = "prepare"
    /\ \E o1 \in InfoOutcomes, o2 \in InfoOutcomes :
         LET info == get_file_info(o2, remote)
             mb == IF info.found THEN info.size ELSE NoSize
         IN /\ Fault(o2 = "raise")
            /\ IF o2 = "raise"
               THEN T_Fail(w, "B2 Connection failed", FALSE, NoFile, TRUE)
               ELSE /\ sync_state' = set_downloading(sync_state, mb)
                    /\ loc' = [loc EXCEPT ![w] =
                                  [Write(@, sync_state') EXCEPT
                                      !.b2_mtime = get_b2_file_mtime(o1, remote)]]
                    /\ Goto(w, "mkstemp")
                    /\ UNCHANGED tmp
    /\ UNCHANGED <<now, remote, replica, stray, pending, last_check,
                   op, lpc, resp>>
    /\ UNCHANGED nonsync

\* os.makedirs and tempfile.mkstemp; if one raises: the outer except
T_MkTemp(w) ==
    /\ op[w] = "tracked" /\ pc[w] = "mkstemp"
    /\ \E ok \in BOOLEAN :
         /\ Fault(~ok)
         /\ IF ok
            THEN /\ tmp' = [tmp EXCEPT ![w] = mkstemp]
                 /\ Goto(w, "download")
                 /\ UNCHANGED <<sync_state, loc>>
            ELSE T_Fail(w, "mkstemp failed", FALSE, NoFile, TRUE)
    /\ UNCHANGED <<now, remote, replica, stray, pending, last_check,
                   op, lpc, resp>>
    /\ UNCHANGED nonsync

\* b2_service.download_file(self.b2_path, temp_file); if it raises: the
\* inner except
T_Download(w) ==
    /\ op[w] = "tracked" /\ pc[w] = "download"
    /\ \E o \in DownloadOutcomes, removed \in BOOLEAN :
         /\ Fault(o # "ok")
         /\ IF o = "raise"
            THEN T_Fail(w, "download error", TRUE, download_file(o), removed)
            ELSE /\ tmp' = [tmp EXCEPT ![w] = download_file(o)]
                 /\ Goto(w, "install")
                 /\ UNCHANGED <<sync_state, loc>>
    /\ UNCHANGED <<now, remote, replica, stray, pending, last_check,
                   op, lpc, resp>>
    /\ UNCHANGED nonsync

\* verify the temporary file, stamp it, move it onto the replica path
T_Install(w) ==
    /\ op[w] = "tracked" /\ pc[w] = "install"
    /\ \E o \in InstallOutcomes, removed \in BOOLEAN :
         LET v == VerifyTracked(tmp[w])
             e == IF v # "none" THEN v ELSE InstallError(loc[w].b2_mtime, o)
         IN /\ Fault(v = "none" /\ e # "none")
            /\ IF e = "none"
               THEN /\ replica' = shutil_move(os_utime(tmp[w], loc[w].b2_mtime))
                    /\ tmp' = [tmp EXCEPT ![w] = NoFile]
                    /\ loc' = [loc EXCEPT ![w].size = tmp[w].size,
                                          ![w].touched = TRUE,
                                          ![w].installed = replica'.mtime]
                    /\ Goto(w, "completed")
                    /\ UNCHANGED sync_state
               ELSE /\ T_Fail(w, e, TRUE, tmp[w], removed)
                    /\ UNCHANGED replica
    /\ UNCHANGED <<now, remote, stray, pending, last_check, op, lpc,
                   resp>>
    /\ UNCHANGED nonsync

\* a return that leaves the status at downloading
T_Completed_NoWrite(w) ==
    /\ op[w] = "tracked" /\ pc[w] = "completed"
    /\ loc' = [loc EXCEPT ![w].result = "true"]
    /\ Goto(w, "done")
    /\ UNCHANGED <<now, remote, replica, tmp, stray, sync_state, pending,
                   events, last_check, op, lpc, resp>>
    /\ UNCHANGED nonsync

\* set_completed(actual_size_mb); return True
T_Completed(w) ==
    /\ op[w] = "tracked" /\ pc[w] = "completed"
    /\ sync_state' = set_completed(sync_state, loc[w].size, now)
    /\ loc' = [loc EXCEPT ![w] =
                  [Write(@, sync_state') EXCEPT !.result = "true"]]
    /\ Goto(w, "done")
    /\ UNCHANGED <<now, remote, replica, tmp, stray, pending, events,
                   last_check, op, lpc, resp>>
    /\ UNCHANGED nonsync

\* ---------------------------------------------------------- sync_if_needed
\* except blocks that return True
P_Fail_ReturnsTrue(w, e, file, removed) ==
    /\ tmp' = [tmp EXCEPT ![w] = Finally(file, removed)]
    /\ loc' = [loc EXCEPT ![w].exc = e, ![w].result = "true",
                          ![w].rmfail = file.exists /\ ~removed]
    /\ Goto(w, "done")

\* the except blocks and the finally block of sync_if_needed: the
\* temporary file removed if it can be, return False
P_Fail(w, e, file, removed) ==
    /\ tmp' = [tmp EXCEPT ![w] = Finally(file, removed)]
    /\ loc' = [loc EXCEPT ![w].exc = e, ![w].result = "false",
                          ![w].rmfail = file.exists /\ ~removed]
    /\ Goto(w, "done")

\* a pool thread (the start-up executor) calls sync_if_needed
sync_if_needed(w) ==
    /\ Spend(1)
    /\ Begin(w, "plain", "check_stale", InitLoc)
    /\ UNCHANGED <<now, remote, replica, sync_state, pending, last_check,
                   lpc, resp>>
    /\ UNCHANGED nonsync

\* is_local_cache_stale(); if stale, b2_mtime = get_b2_file_mtime(),
\* otherwise return False
P_CheckStale(w) ==
    /\ op[w] = "plain" /\ pc[w] = "check_stale"
    /\ \E o1 \in InfoOutcomes, o2 \in InfoOutcomes :
         LET local == get_local_file_mtime(replica)
             stale == is_local_cache_stale(local, get_b2_file_mtime(o1, remote))
         IN /\ last_check' = Checked(o1, stale)
            /\ IF stale
               THEN /\ loc' = [loc EXCEPT ![w].b2_mtime =
                                  get_b2_file_mtime(o2, remote)]
                    /\ Goto(w, "mkstemp")
               ELSE /\ loc' = [loc EXCEPT ![w].result = "false"]
                    /\ Goto(w, "done")
    /\ UNCHANGED <<now, remote, replica, tmp, stray, sync_state, pending,
                   events, op, lpc, resp>>
    /\ UNCHANGED nonsync

P_MkTemp(w) ==
    /\ op[w] = "plain" /\ pc[w] = "mkstemp"
    /\ \E ok \in BOOLEAN :
         /\ Fault(~ok)
         /\ IF ok
            THEN /\ tmp' = [tmp EXCEPT ![w] = mkstemp]
                 /\ Goto(w, "download")
                 /\ UNCHANGED loc
            ELSE P_Fail(w, "mkstemp failed", NoFile, TRUE)
    /\ UNCHANGED <<now, remote, replica, stray, sync_state, pending,
                   last_check, op, lpc, resp>>
    /\ UNCHANGED nonsync

P_Download(w) ==
    /\ op[w] = "plain" /\ pc[w] = "download"
    /\ \E o \in DownloadOutcomes, removed \in BOOLEAN :
         /\ Fault(o # "ok")
         /\ IF o = "raise"
            THEN P_Fail(w, "download error", download_file(o), removed)
            ELSE /\ tmp' = [tmp EXCEPT ![w] = download_file(o)]
                 /\ Goto(w, "install")
                 /\ UNCHANGED loc
    /\ UNCHANGED <<now, remote, replica, stray, sync_state, pending,
                   last_check, op, lpc, resp>>
    /\ UNCHANGED nonsync

\* verify, stamp, move; return True
P_Install(w) ==
    /\ op[w] = "plain" /\ pc[w] = "install"
    /\ \E o \in InstallOutcomes, removed \in BOOLEAN :
         LET v == VerifyPlain(tmp[w])
             e == IF v # "none" THEN v ELSE InstallError(loc[w].b2_mtime, o)
         IN /\ Fault(v = "none" /\ e # "none")
            /\ IF e = "none"
               THEN /\ replica' = shutil_move(os_utime(tmp[w], loc[w].b2_mtime))
                    /\ tmp' = [tmp EXCEPT ![w] = NoFile]
                    /\ loc' = [loc EXCEPT ![w].size = tmp[w].size,
                                          ![w].touched = TRUE,
                                          ![w].installed = replica'.mtime,
                                          ![w].result = "true"]
                    /\ Goto(w, "done")
               ELSE /\ P_Fail(w, e, tmp[w], removed)
                    /\ UNCHANGED replica
    /\ UNCHANGED <<now, remote, stray, sync_state, pending,
                   last_check, op, lpc, resp>>
    /\ UNCHANGED nonsync

\* ------------------------------------------- POST /sync, GET /books
HttpOk == 200
HttpNotFound == 404
HttpError == 500

\* the status of the HTTPException raised when no KoboReader.sqlite is listed
NotListed(o) == IF o = "get_books" THEN HttpNotFound ELSE HttpError

\* sync_data: os.makedirs, then the direct download
sync_data(w) ==
    /\ \E ok \in BOOLEAN :
         /\ Spend(IF ok THEN 1 ELSE 2)
         /\ IF ok
            THEN Begin(w, "sync_data", "open1", InitLoc)
            ELSE Begin(w, "sync_data", "done",
                       [InitLoc EXCEPT !.http = HttpError])
    /\ UNCHANGED <<now, remote, replica, sync_state, pending, last_check,
                   lpc, resp>>
    /\ UNCHANGED nonsync

\* get_books: the auto-sync runs only if the replica path does not exist
get_books(w) ==
    /\ \E ok \in BOOLEAN :
         /\ Spend(IF replica.exists \/ ok THEN 1 ELSE 2)
         /\ IF replica.exists
            THEN Begin(w, "get_books", "done", [InitLoc EXCEPT !.http = HttpOk])
            ELSE IF ok
            THEN Begin(w, "get_books", "open1", InitLoc)
            ELSE Begin(w, "get_books", "done",
                       [InitLoc EXCEPT !.http = HttpError])
    /\ UNCHANGED <<now, remote, replica, sync_state, pending, last_check,
                   lpc, resp>>
    /\ UNCHANGED nonsync

Direct(w) == op[w] \in {"sync_data", "get_books"}

First(w) == pc[w] \in {"open1", "write1"}

\* b2_service.download_file(name, local_path): the request, then save_to
\* opens local_path with 'wb'; after a failed first download the bucket is
\* searched, a failed second one ends the request
D_Open(w) ==
    /\ Direct(w) /\ pc[w] \in {"open1", "open2"}
    /\ \E ok \in BOOLEAN :
         /\ Fault(~ok)
         /\ IF ok
            THEN /\ replica' = PartialFile(remote.ver, Secs(now))
                 /\ loc' = [loc EXCEPT ![w].touched = TRUE]
                 /\ Goto(w, IF First(w) THEN "write1" ELSE "write2")
            ELSE /\ Goto(w, IF First(w) THEN "search" ELSE "done")
                 /\ loc' = [loc EXCEPT ![w].http =
                               IF First(w) THEN @ ELSE HttpError]
                 /\ UNCHANGED replica
    /\ UNCHANGED <<now, remote, tmp, stray, sync_state, pending,
                   last_check, op, lpc, resp>>
    /\ UNCHANGED nonsync

\* save_to writes the bytes into the opened file and returns, or raises
\* with the bytes written so far left at local_path; a file that a rename
\* has put at local_path in the meantime is not the opened one and stays
D_Write(w) ==
    /\ Direct(w) /\ pc[w] \in {"write1", "write2"}
    /\ \E ok \in BOOLEAN :
         /\ Fault(~ok)
         /\ IF ok
            THEN /\ replica' = IF replica.complete THEN replica
                               ELSE CompleteFile(replica.ver, Secs(now))
                 /\ loc' = [loc EXCEPT ![w].http = HttpOk]
                 /\ Goto(w, "done")
            ELSE /\ Goto(w, IF First(w) THEN "search" ELSE "done")
                 /\ loc' = [loc EXCEPT ![w].http =
                               IF First(w) THEN @ ELSE HttpError]
                 /\ UNCHANGED replica
    /\ UNCHANGED <<now, remote, tmp, stray, sync_state, pending,
                   last_check, op, lpc, resp>>
    /\ UNCHANGED nonsync

SearchOutcomes == {"found", "absent", "raise"}

\* b2_service.list_files() and the search for a name ending in
\* KoboReader.sqlite
D_Search(w) ==
    /\ Direct(w) /\ pc[w] = "search"
    /\ \E o \in SearchOutcomes :
         /\ Fault(o # "found")
         /\ CASE o = "found" -> /\ Goto(w, "open2")
                                /\ UNCHANGED loc
              [] o = "absent" -> /\ Goto(w, "done")
                                 /\ loc' = [loc EXCEPT
                                               ![w].http = NotListed(op[w])]
              [] o = "raise" -> /\ Goto(w, "done")
                                /\ loc' = [loc EXCEPT ![w].http = HttpError]
    /\ UNCHANGED <<now, remote, replica, tmp, stray, sync_state, pending,
                   last_check, op, lpc, resp>>
    /\ UNCHANGED nonsync

\* ---------------------------------------------------------- check_and_sync
Response(initiated, message, status) ==
    [valid |-> TRUE, initiated |-> initiated, message |-> message,
     status |-> status]

\* the handler starts: if sync_state.is_busy()
check_and_sync ==
    /\ lpc = "idle"
    /\ Spend(1)
    /\ lpc' = IF is_busy(sync_state) THEN "busy" ELSE "decide"
    /\ resp' = NoResp
    /\ UNCHANGED <<now, remote, replica, tmp, stray, sync_state, pending,
                   last_check, op, pc, loc>>
    /\ UNCHANGED nonsync

\* return {"initiated": False, ..., **sync_state.get_state()}
C_Busy ==
    /\ lpc = "busy"
    /\ resp' = Response(FALSE, "Sync already in progress",
                        get_state(sync_state).status)
    /\ lpc' = "idle"
    /\ UNCHANGED <<now, remote, replica, tmp, stray, sync_state, pending,
                   events, last_check, op, pc, loc>>
    /\ UNCHANGED nonsync

\* current_status = sync_state.status; after Completed or UpToDate a
\* replica that is not stale ends the request; otherwise set_idle() and
\* add_task(run_sync_in_background)
C_Decide ==
    /\ lpc = "decide"
    /\ IF sync_state.status \in {"completed", "up_to_date"}
       THEN \E o \in InfoOutcomes :
              LET stale == is_local_cache_stale(get_local_file_mtime(replica),
                                                get_b2_file_mtime(o, remote))
              IN /\ last_check' = Checked(o, stale)
                 /\ IF ~stale
                    THEN /\ resp' = Response(FALSE,
                                             "Database is already up to date",
                                             get_state(sync_state).status)
                         /\ UNCHANGED <<sync_state, pending>>
                    ELSE /\ sync_state' = set_idle(sync_state)
                         /\ pending' = pending + 1
                         /\ resp' = Response(TRUE,
                                             "Sync initiated in background",
                                             "checking")
       ELSE /\ sync_state' = set_idle(sync_state)
            /\ pending' = pending + 1
            /\ resp' = Response(TRUE, "Sync initiated in background",
                                "checking")
            /\ UNCHANGED last_check
    /\ lpc' = "idle"
    /\ UNCHANGED <<now, remote, replica, tmp, stray, events, op, pc,
                   loc>>
    /\ UNCHANGED nonsync

\* ------------------------------------------------------------------- Next
Next ==
    \/ Upload
    \/ check_and_sync
    \/ C_Busy
    \/ C_Decide
    \/ \E w \in Workers : run_sync_in_background(w)
    \/ \E w \in Workers : T_SetChecking(w)
    \/ \E w \in Workers : T_CheckStale(w)
    \/ \E w \in Workers : T_Prepare(w)
    \/ \E w \in Workers : T_MkTemp(w)
    \/ \E w \in Workers : T_Download(w)
    \/ \E w \in Workers : T_Install(w)
    \/ \E w \in Workers : T_Completed(w)
    \/ \E w \in Workers : sync_if_needed(w)
    \/ \E w \in Workers : P_CheckStale(w)
    \/ \E w \in Workers : P_MkTemp(w)
    \/ \E w \in Workers : P_Download(w)
    \/ \E w \in Workers : P_Install(w)
    \/ \E w \in Workers : sync_data(w)
    \/ \E w \in Workers : get_books(w)
    \/ \E w \in Workers : D_Open(w)
    \/ \E w \in Workers : D_Write(w)
    \/ \E w \in Workers : D_Search(w)

Spec == Init /\ [][Next]_vars

\* ------------------------------------------------- the background sync
\* the requests for a background sync and the tasks they add, while the
\* remote object stays as it is
NextTracked ==
    \/ check_and_sync
    \/ C_Busy
    \/ C_Decide
    \/ \E w \in Workers : run_sync_in_background(w)
    \/ \E w \in Workers : T_SetChecking(w)
    \/ \E w \in Workers : T_CheckStale(w)
    \/ \E w \in Workers : T_Prepare(w)
    \/ \E w \in Workers : T_MkTemp(w)
    \/ \E w \in Workers : T_Download(w)
    \/ \E w \in Workers : T_Install(w)
    \/ \E w \in Workers : T_Completed(w)

\* a handler that has started runs to its return, a task that was added is
\* started when a pool thread is free, and a thread that runs a sync takes
\* its next step: every call returns or raises
Fairness ==
    /\ WF_vars(C_Busy)
    /\ WF_vars(C_Decide)
    /\ WF_vars(\E w \in Workers : run_sync_in_background(w))
    /\ \A w \in Workers :
         /\ WF_vars(T_SetChecking(w))
         /\ WF_vars(T_CheckStale(w))
         /\ WF_vars(T_Prepare(w))
         /\ WF_vars(T_MkTemp(w))
         /\ WF_vars(T_Download(w))
         /\ WF_vars(T_Install(w))
         /\ WF_vars(T_Completed(w))

SpecTracked == Init /\ [][NextTracked]_vars /\ Fairness

\* ---------------------------------------------------- GET /sync-status
\* needs_reload of a response built on the state mapping st
needs_reload_Terminal(st) == st.status \in {"completed", "up_to_date"}

needs_reload(st) == st.status = "completed"

\* the dict the handler returns: the state read first, is_syncing from a
\* second call, needs_reload from the state read first; moved: the status
\* was changed between the two calls
StatusResponse(st, busy, now_status) ==
    [valid |-> TRUE, state |-> st, is_syncing |-> busy,
     needs_reload |-> needs_reload(st), moved |-> now_status # st.status]

\* the handler starts on the event loop: state = sync_state.get_state()
get_sync_status ==
    /\ lpc = "idle"
    /\ events < MaxEvents
    /\ events' = events + 1
    /\ lpc' = "status"
    /\ state' = [valid |-> TRUE, dict |-> get_state(sync_state)]
    /\ UNCHANGED <<now, remote, replica, tmp, stray, sync_state, pending,
                   last_check, op, pc, loc, resp>>
    /\ UNCHANGED <<lockvars, kobovars, response, startup>>

\* the return statement: sync_state.is_busy() is called and the dict built
S_Return ==
    /\ lpc = "status"
    /\ lpc' = "idle"
    /\ response' = StatusResponse(state.dict, is_busy(sync_state),
                                sync_state.status)
    /\ state' = NoState
    /\ UNCHANGED <<now, remote, replica, tmp, stray, sync_state, pending,
                   events, last_check, op, pc, loc, resp>>
    /\ UNCHANGED <<lockvars, kobovars, startup>>

\* the status polled while background syncs are requested and run
NextStatus ==
    \/ NextTracked
    \/ get_sync_status
    \/ S_Return

SpecStatus == Init /\ [][NextStatus]_vars

\* ------------------------------------------------------------- start-up
\* a start-up that never syncs
NeedsSync_Never(local_mtime) == FALSE

\* if local_mtime == 0
NeedsSync(local_mtime) == local_mtime = Zero

\* lifespan up to its first decision: local_mtime is read; with a replica
\* the initial sync is skipped and the application is ready
lifespan ==
    /\ startup.pc = "start"
    /\ \E local_mtime \in {get_local_file_mtime(replica)} :
         startup' = [startup EXCEPT
                       !.pc = IF NeedsSync(local_mtime) THEN "sync"
                                                        ELSE "ready",
                       !.local_mtime = local_mtime,
                       !.replica0 = replica]
    /\ UNCHANGED <<syncvars, lockvars, kobovars, state, response>>

\* run_in_executor(None, db_sync_service.sync_if_needed): the call starts
S_Sync ==
    /\ startup.pc = "sync"
    /\ \A w \in Workers : op[w] = "idle"
    /\ \E w \in Workers : sync_if_needed(w)

\* the call has returned: if not sync_result, SystemExit(1)
S_Result ==
    /\ startup.pc = "sync"
    /\ \E w \in Workers :
         /\ op[w] = "plain" /\ pc[w] = "done"
         /\ startup' = [startup EXCEPT
                          !.pc = IF loc[w].result = "true" THEN "verify"
                                                           ELSE "aborted",
                          !.sync_result = loc[w].result]
    /\ UNCHANGED <<syncvars, lockvars, kobovars, state, response>>

\* final_mtime is read: if final_mtime == 0, SystemExit(1); otherwise the
\* application is ready
S_Verify ==
    /\ startup.pc = "verify"
    /\ \E final_mtime \in {get_local_file_mtime(replica)} :
         startup' = [startup EXCEPT
                       !.pc = IF final_mtime = Zero THEN "aborted"
                                                    ELSE "ready",
                       !.final_mtime = final_mtime]
    /\ UNCHANGED <<syncvars, lockvars, kobovars, state, response>>

\* the application starts while the e-reader may upload
NextStartup ==
    \/ lifespan
    \/ S_Sync
    \/ \E w \in Workers : P_CheckStale(w)
    \/ \E w \in Workers : P_MkTemp(w)
    \/ \E w \in Workers : P_Download(w)
    \/ \E w \in Workers : P_Install(w)
    \/ S_Result
    \/ S_Verify
    \/ Upload

SpecStartup == Init /\ [][NextStartup]_vars

\* ================================================= SyncState, by statement
\* Each method of SyncState is "with self._state_lock:" around a list of
\* attribute assignments (the setters) or attribute reads (get_state).
MaxCalls == 3

\* the size passed to set_downloading and set_completed, in MB
SomeSize == 5

\* the setters the background sync calls, and the methods the handlers call
Setters == {"set_checking", "set_downloading", "set_completed",
            "set_up_to_date", "set_error"}

CallsOf(t) == IF t = "bg" THEN Setters ELSE {"set_idle", "get_state"}

\* the attributes a setter assigns, in the order of its statements
Assigned(call) ==
    CASE call = "set_downloading" ->
            <<"status", "message", "error", "progress", "file_size_mb">>
      [] call = "set_completed" ->
            <<"status", "message", "error", "progress", "last_sync_time",
              "file_size_mb">>
      [] OTHER -> <<"status", "message", "error", "progress">>

\* the object after the whole of a setter
After(call, st, t) ==
    CASE call = "set_checking" -> set_checking(st)
      [] call = "set_downloading" -> set_downloading(st, SomeSize)
      [] call = "set_completed" -> set_completed(st, SomeSize, t)
      [] call = "set_up_to_date" -> set_up_to_date(st)
      [] call = "set_error" -> set_error(st, Str("download error"))
      [] call = "set_idle" -> set_idle(st)

\* datetime.isoformat(), or None
isoformat(t) == IF t = NoTime THEN <<>> ELSE <<"iso", t>>

\* the values get_state puts in its dict
Dict(st) ==
    [status |-> <<st.status>>, message |-> <<st.message>>,
     progress |-> <<st.progress>>, error |-> <<st.error>>,
     last_sync_time |-> isoformat(st.last_sync_time),
     file_size_mb |-> <<st.file_size_mb>>]

\* the dict literal get_state returns: a new object
Returned(d, base) == [valid |-> TRUE, ref |-> FALSE, val |-> d, base |-> base]

\* what the holder of a returned value sees in it
View(r) == IF r.ref THEN Dict(obj) ELSE r.val

\* a lock that anyone may enter
CanAcquire_Always(h) == TRUE

\* Lock.acquire: only when no thread holds it
CanAcquire(h) == h = "none"

\* thread t calls a method of SyncState
L_Call(t) ==
    /\ thread[t].pc = "idle"
    /\ ncalls < MaxCalls
    /\ ncalls' = ncalls + 1
    /\ \E c \in CallsOf(t) :
         thread' = [thread EXCEPT ![t].pc = "acquire", ![t].call = c,
                                  ![t].arg = ncalls']
    /\ UNCHANGED <<obj, holder, committed>>
    /\ UNCHANGED nonlock

\* with self._state_lock: enter
L_Acquire(t) ==
    /\ thread[t].pc = "acquire"
    /\ CanAcquire(holder)
    /\ holder' = t
    /\ thread' = [thread EXCEPT ![t].pc = "body", ![t].k = 1,
                                ![t].snap = NoDict, ![t].base = Dict(committed)]
    /\ UNCHANGED <<obj, committed, ncalls>>
    /\ UNCHANGED nonlock

\* one assignment self.<attribute> = ... of a setter
L_Assign(t) ==
    /\ thread[t].pc = "body" /\ thread[t].call # "get_state"
    /\ LET fs == Assigned(thread[t].call)
           f == fs[thread[t].k]
       IN /\ obj' = [obj EXCEPT
                       ![f] = After(thread[t].call, obj, thread[t].arg)[f]]
          /\ thread' = [thread EXCEPT
                          ![t].k = @ + 1,
                          ![t].pc = IF thread[t].k = Len(fs)
                                    THEN "release" ELSE "body"]
    /\ UNCHANGED <<holder, committed, ncalls>>
    /\ UNCHANGED nonlock

\* one entry of the dict literal of get_state: the attribute is read
L_Read(t) ==
    /\ thread[t].pc = "body" /\ thread[t].call = "get_state"
    /\ LET f == Fields[thread[t].k]
       IN thread' = [thread EXCEPT
                       ![t].snap = [@ EXCEPT ![f] = Dict(obj)[f]],
                       ![t].k = @ + 1,
                       ![t].pc = IF thread[t].k = Len(Fields)
                                 THEN "release" ELSE "body"]
    /\ UNCHANGED <<obj, holder, committed, ncalls>>
    /\ UNCHANGED nonlock

\* the with block is left: the lock is released and the method returns
L_Release(t) ==
    /\ thread[t].pc = "release"
    /\ holder' = "none"
    /\ IF thread[t].call = "get_state"
       THEN /\ thread' = [thread EXCEPT
                            ![t] = [InitThread EXCEPT
                                      !.ret = Returned(thread[t].snap,
                                                       thread[t].base)]]
            /\ UNCHANGED committed
       ELSE /\ thread' = [thread EXCEPT
                            ![t] = [InitThread EXCEPT !.ret = thread[t].ret]]
            /\ committed' = obj
    /\ UNCHANGED <<obj, ncalls>>
    /\ UNCHANGED nonlock

\* the sync functions at rest, the replica in place
SyncQuiet ==
    /\ now = StartMs
    /\ remote = [ver |-> 1, ts |-> UploadedMs]
    /\ replica = CompleteFile(1, Secs(UploadedMs))
    /\ tmp = [w \in Workers |-> NoFile]
    /\ stray = 0
    /\ sync_state = InitialSyncState
    /\ pending = 0
    /\ events = 0
    /\ last_check = NoCheck
    /\ op = [w \in Workers |-> "idle"]
    /\ pc = [w \in Workers |-> "idle"]
    /\ loc = [w \in Workers |-> InitLoc]
    /\ lpc = "idle"
    /\ resp = NoResp
    /\ StatusStart

InitLock == SyncQuiet /\ LockStart /\ KoboStart

NextLock ==
    \E t \in Threads :
       \/ L_Call(t)
       \/ L_Acquire(t)
       \/ L_Assign(t)
       \/ L_Read(t)
       \/ L_Release(t)

SpecLock == InitLock /\ [][NextLock]_vars

\* ==================================================== Library Query Engine
\* Text values are sequences of one-character strings; NULL is a value of
\* its own.
Null == <<"NULL">>

\* the byte of a character (BINARY collation compares bytes)
Code(ch) ==
    CASE ch = "%" -> 37 [] ch = "0" -> 48 [] ch = "1" -> 49 [] ch = "2" -> 50
      [] ch = "3" -> 51 [] ch = "4" -> 52 [] ch = "5" -> 53
      [] ch = "A" -> 65 [] ch = "B" -> 66 [] ch = "C" -> 67
      [] ch = "_" -> 95 [] ch = "a" -> 97 [] ch = "b" -> 98 [] ch = "c" -> 99
      [] OTHER -> 120

LowerChar(ch) ==
    CASE ch = "A" -> "a" [] ch = "B" -> "b" [] ch = "C" -> "c" [] OTHER -> ch

\* SQL LOWER(x): NULL for NULL
LOWER(x) == IF x = Null THEN Null ELSE [i \in 1..Len(x) |-> LowerChar(x[i])]

\* Python str.lower()
lower(x) == [i \in 1..Len(x) |-> LowerChar(x[i])]

\* SQL a = b: not true when either side is NULL
Eq(a, b) == a # Null /\ b # Null /\ a = b

\* SQL a < b on text
RECURSIVE StrLess(_, _)
StrLess(a, b) ==
    IF b = <<>> THEN FALSE
    ELSE IF a = <<>> THEN TRUE
    ELSE IF Code(a[1]) # Code(b[1]) THEN Code(a[1]) < Code(b[1])
    ELSE StrLess(Tail(a), Tail(b))

\* SQL x LIKE pattern from positions i of x and j of the pattern: % is any
\* run of characters, _ any one character, letters match in either case
RECURSIVE LikeFrom(_, _, _, _)
LikeFrom(x, pat, i, j) ==
    IF j > Len(pat) THEN i > Len(x)
    ELSE IF pat[j] = "%"
         THEN \E k \in i..(Len(x) + 1) : LikeFrom(x, pat, k, j + 1)
    ELSE IF i > Len(x) THEN FALSE
    ELSE IF pat[j] = "_" THEN LikeFrom(x, pat, i + 1, j + 1)
    ELSE /\ LowerChar(x[i]) = LowerChar(pat[j])
         /\ LikeFrom(x, pat, i + 1, j + 1)

\* x LIKE pattern: not true for NULL
LIKE(x, pat) == x # Null /\ LikeFrom(x, pat, 1, 1)

\* no limit, no offset, no search: None
None == -1

\* "if search": false for None and for the empty string
HasSearch(search) == search # Null /\ search # <<>>

\* WHERE ContentType = '6' AND (BookID IS NULL OR BookID = '')
IsBook(r) == r.ContentType = "6" /\ (r.BookID = Null \/ r.BookID = <<>>)

\* a same-author test that never matches a missing author
SameAttribution_Strict(a, b) == Eq(a, b)

\* c2.Attribution = c1.Attribution OR both IS NULL
SameAttribution(a, b) == Eq(a, b) \/ (a = Null /\ b = Null)

\* ORDER BY ___PercentRead DESC, DateCreated DESC: a sorts before b
Better(a, b) ==
    \/ a.PercentRead > b.PercentRead
    \/ a.PercentRead = b.PercentRead /\ a.DateCreated > b.DateCreated

\* the correlated subquery: the rows that compete with table[i]
Rivals(table, i) ==
    {j \in 1..Len(table) :
       /\ IsBook(table[j])
       /\ Eq(table[j].Title, table[i].Title)
       /\ SameAttribution(table[j].Attribution, table[i].Attribution)}

\* ... ORDER BY ... LIMIT 1: the first of them (of equal rows, the first
\* in rowid order); 0 when there is none
Subquery(table, i) ==
    IF Rivals(table, i) = {} THEN 0
    ELSE CHOOSE j \in Rivals(table, i) :
           \A k \in Rivals(table, i) \ {j} :
              \/ Better(table[j], table[k])
              \/ ~Better(table[k], table[j]) /\ j < k

\* AND (LOWER(c1.Title) LIKE ? OR LOWER(c1.Attribution) LIKE ?), with
\* search_term = f"%{search.lower()}%"
Matches(r, search) ==
    LET search_term == <<"%">> \o lower(search) \o <<"%">>
    IN LIKE(LOWER(r.Title), search_term)
          \/ LIKE(LOWER(r.Attribution), search_term)

\* the rows of c1 the WHERE clause keeps
Selected(table, search) ==
    {i \in 1..Len(table) :
       /\ IsBook(table[i])
       /\ Subquery(table, i) # 0
       /\ table[i].ContentID = table[Subquery(table, i)].ContentID
       /\ HasSearch(search) => Matches(table[i], search)}

\* the same ordering with titles compared as they are stored
Before_CaseSensitive(table, a, b) ==
    LET ra == table[a]
        rb == table[b]
        ka == IF ra.PercentRead > 0 THEN 0 ELSE 1
        kb == IF rb.PercentRead > 0 THEN 0 ELSE 1
    IN \/ ka < kb
       \/ /\ ka = kb
          /\ \/ ra.PercentRead > rb.PercentRead
             \/ /\ ra.PercentRead = rb.PercentRead
                /\ \/ StrLess(ra.Title, rb.Title)
                   \/ ra.Title = rb.Title /\ a < b

\* ORDER BY CASE WHEN MAX(___PercentRead) > 0 THEN 0 ELSE 1 END,
\* MAX(___PercentRead) DESC, LOWER(Title) ASC: row a comes before row b
\* (rows equal in all three keep their rowid order)
Before(table, a, b) ==
    LET ra == table[a]
        rb == table[b]
        ka == IF ra.PercentRead > 0 THEN 0 ELSE 1
        kb == IF rb.PercentRead > 0 THEN 0 ELSE 1
    IN \/ ka < kb
       \/ /\ ka = kb
          /\ \/ ra.PercentRead > rb.PercentRead
             \/ /\ ra.PercentRead = rb.PercentRead
                /\ \/ StrLess(LOWER(ra.Title), LOWER(rb.Title))
                   \/ LOWER(ra.Title) = LOWER(rb.Title) /\ a < b

\* the rows of a set, ordered
RECURSIVE Ordered(_, _)
Ordered(table, rows) ==
    IF rows = {} THEN <<>>
    ELSE LET first == CHOOSE a \in rows :
                         \A b \in rows \ {a} : Before(table, a, b)
         IN <<table[first]>> \o Ordered(table, rows \ {first})

\* LIMIT ? OFFSET ?
LimitOffset(rows, limit, offset) ==
    IF limit # None /\ offset # None
    THEN SubSeq(rows, offset + 1,
                IF offset + limit < Len(rows) THEN offset + limit
                                              ELSE Len(rows))
    ELSE IF limit # None
    THEN SubSeq(rows, 1, IF limit < Len(rows) THEN limit ELSE Len(rows))
    ELSE rows

\* KoboService.get_books(limit, offset, search); every group of the
\* GROUP BY holds the one row the subquery kept
KoboService_get_books(table, limit, offset, search) ==
    LimitOffset(Ordered(table, Selected(table, search)), limit, offset)

\* KoboService.get_total_books(search):
\* COUNT(DISTINCT c1.Title || COALESCE(c1.Attribution, ''))
KoboService_get_total_books(table, search) ==
    Cardinality({table[i].Title \o
                   (IF table[i].Attribution = Null THEN <<>>
                    ELSE table[i].Attribution) :
                 i \in {k \in Selected(table, search) :
                          table[k].Title # Null}})

\* (total_books + page_size - 1) // page_size if total_books > 0 else 1
TotalPages(total_books, page_size) ==
    IF total_books > 0
    THEN (total_books + page_size - 1) \div page_size
    ELSE 1

\* the body of GET /books once the replica exists
BooksResponse(table, page, page_size, search) ==
    LET offset == (page - 1) * page_size
        books == KoboService_get_books(table, page_size, offset, search)
        total_books ==
           IF HasSearch(search)
           THEN Len(KoboService_get_books(table, None, None, search))
           ELSE KoboService_get_total_books(table, Null)
    IN [call |-> "books", page |-> page, page_size |-> page_size,
        search |-> search, books |-> books, total |-> total_books,
        total_pages |-> TotalPages(total_books, page_size)]

\* ------------------------------------------------------- a small library
MaxRows == 3
MaxPage == 2
MaxPageSize == 2

\* progress values (percent) and creation dates
Older == 1
Newer == 2

Row(title, author, percent, date, type, book) ==
    [Title |-> title, Attribution |-> author, PercentRead |-> percent,
     DateCreated |-> date, ContentType |-> type, BookID |-> book]

\* the rows a library is made of: copies of one title at different
\* progress and dates, titles differing in case, missing and empty
\* authors, and a section of a book
RowDomain ==
    {Row(<<"a", "b">>, <<"c">>, 30, Older, "6", <<>>),
     Row(<<"a", "b">>, <<"c">>, 30, Newer, "6", Null),
     Row(<<"B">>, Null, 0, Older, "6", Null),
     Row(<<"B">>, Null, 30, Newer, "6", Null),
     Row(<<"b">>, <<"A">>, 50, Older, "6", Null),
     Row(<<"B">>, <<>>, 0, Older, "6", Null),
     Row(<<"a", "b">>, <<"c">>, 90, Newer, "9", <<"x">>)}

Digit(i) == <<"1", "2", "3", "4", "5">>[i]

\* ContentID is the table's key: every row has its own
WithIds(rows) ==
    [i \in 1..Len(rows) |->
       [ContentID |-> <<"i", "d", Digit(i)>>, Title |-> rows[i].Title,
        Attribution |-> rows[i].Attribution,
        PercentRead |-> rows[i].PercentRead,
        DateCreated |-> rows[i].DateCreated,
        ContentType |-> rows[i].ContentType, BookID |-> rows[i].BookID]]

Tables ==
    UNION {{WithIds(rows) : rows \in [1..n -> RowDomain]} : n \in 0..MaxRows}

\* the search terms of a request: none, empty, a capital letter, and the
\* character _
Searches == {Null, <<>>, <<"A">>, <<"_">>}

InitBooks ==
    /\ SyncQuiet /\ LockStart
    /\ content \in Tables
    /\ Bookmark = <<>>
    /\ out = NoOut

\* one query is made of a replica
\* kobo_service.get_books(search=...) without limit and offset
ListBooks ==
    /\ out = NoOut
    /\ \E search \in Searches :
         out' = [call |-> "list", search |-> search,
                 books |-> KoboService_get_books(content, None, None, search)]
    /\ UNCHANGED <<content, Bookmark>>
    /\ UNCHANGED nonkobo

\* GET /books?page=&page_size=&search=
GetBooksPage ==
    /\ out = NoOut
    /\ \E page \in 1..MaxPage, page_size \in 1..MaxPageSize,
          search \in Searches :
         out' = BooksResponse(content, page, page_size, search)
    /\ UNCHANGED <<content, Bookmark>>
    /\ UNCHANGED nonkobo

\* kobo_service.get_total_books(search=...)
CountBooks ==
    /\ out = NoOut
    /\ \E search \in Searches :
         out' = [call |-> "count", search |-> search,
                 total |-> KoboService_get_total_books(content, search)]
    /\ UNCHANGED <<content, Bookmark>>
    /\ UNCHANGED nonkobo

NextBooks == ListBooks \/ GetBooksPage \/ CountBooks

SpecBooks == InitBooks /\ [][NextBooks]_vars

\* ------------------------------------------------------ lookups by id
\* what the two hexadecimal digits after a % stand for; "" when they are
\* not hexadecimal digits
Unhex(x, y) ==
    CASE x = "2" /\ y = "0" -> " "
      [] x = "2" /\ y = "5" -> "%"
      [] x = "0" /\ y = "0" -> "NUL"
      [] x = "0" /\ y = "2" -> "STX"
      [] x = "0" /\ y = "5" -> "ENQ"
      [] x = "2" /\ y = "2" -> "QUOTE"
      [] x = "5" /\ y = "0" -> "P"
      [] x = "5" /\ y = "2" -> "R"
      [] x = "5" /\ y = "5" -> "U"
      [] OTHER -> ""

\* urllib.parse.unquote: every %XX becomes the character it stands for, a
\* % not followed by two hexadecimal digits stays
RECURSIVE unquote(_)
unquote(x) ==
    IF x = <<>> THEN <<>>
    ELSE IF x[1] = "%" /\ Len(x) >= 3 /\ Unhex(x[2], x[3]) # ""
         THEN <<Unhex(x[2], x[3])>> \o unquote(SubSeq(x, 4, Len(x)))
         ELSE <<x[1]>> \o unquote(Tail(x))

\* KoboService.get_book_by_id: WHERE ContentType = '6' AND (BookID IS NULL
\* OR BookID = '') AND ContentID = ? LIMIT 1; a sequence of at most one row
KoboService_get_book_by_id(table, book_id) ==
    LET Found(r) == IsBook(r) /\ Eq(r.ContentID, book_id)
        rows == SelectSeq(table, Found)
    IN IF rows = <<>> THEN <<>> ELSE <<rows[1]>>

\* KoboService.get_highlights: WHERE b.VolumeID = ? AND b.Type =
\* 'highlight' (the order and the added keys are left out)
KoboService_get_highlights(marks, book_id) ==
    LET Found(b) == Eq(b.VolumeID, book_id) /\ Eq(b.Type, <<"highlight">>)
    IN SelectSeq(marks, Found)

\* KoboService.get_markups: WHERE b.VolumeID = ? AND
\* b.ExtraAnnotationData IS NOT NULL
KoboService_get_markups(marks, book_id) ==
    LET Found(b) == Eq(b.VolumeID, book_id) /\ b.ExtraAnnotationData # Null
    IN SelectSeq(marks, Found)

\* a response: the identifiers looked up, in order, the rows returned and
\* the HTTP status
Answer(tried, rows, status) ==
    [tried |-> tried, rows |-> rows, status |-> status]

\* a lookup that stops at the identifier as received
get_book_highlights_NoRetry(marks, book_id) ==
    Answer(<<book_id>>, KoboService_get_highlights(marks, book_id), HttpOk)

\* get_book_highlights: the identifier as received, then its decoded form
get_book_highlights(marks, book_id) ==
    LET highlights == KoboService_get_highlights(marks, book_id)
        decoded_id == unquote(book_id)
    IN IF highlights = <<>> /\ decoded_id # book_id
       THEN Answer(<<book_id, decoded_id>>,
                   KoboService_get_highlights(marks, decoded_id), HttpOk)
       ELSE Answer(<<book_id>>, highlights, HttpOk)

\* get_book_markups: the identifier as received, then its decoded form
get_book_markups(marks, book_id) ==
    LET markups == KoboService_get_markups(marks, book_id)
        decoded_id == unquote(book_id)
    IN IF markups = <<>> /\ decoded_id # book_id
       THEN Answer(<<book_id, decoded_id>>,
                   KoboService_get_markups(marks, decoded_id), HttpOk)
       ELSE Answer(<<book_id>>, markups, HttpOk)

\* get_book_details: the decoded form, then the identifier as received;
\* 404 when neither finds a book
get_book_details(table, book_id) ==
    LET decoded_id == unquote(book_id)
        book == KoboService_get_book_by_id(table, decoded_id)
        again == book = <<>> /\ decoded_id # book_id
        found == IF again THEN KoboService_get_book_by_id(table, book_id)
                 ELSE book
    IN Answer(IF again THEN <<decoded_id, book_id>> ELSE <<decoded_id>>,
              found, IF found = <<>> THEN HttpNotFound ELSE HttpOk)

MaxStored == 2

\* identifiers: one with a space, the same percent-encoded, and the same
\* encoded twice
IdDomain ==
    {<<"a", " ", "b">>, <<"a", "%", "2", "0", "b">>,
     <<"a", "%", "2", "5", "2", "0", "b">>}

\* a book, or a section of a book, stored under an identifier
StoredRows ==
    {[ContentID |-> id, Title |-> <<"B">>, Attribution |-> Null,
      PercentRead |-> 0, DateCreated |-> Older, ContentType |-> k[1],
      BookID |-> k[2]] :
       id \in IdDomain, k \in {<<"6", Null>>, <<"9", <<"x">>>>}}

\* a highlight, or a markup, of the volume with an identifier
StoredMarks ==
    {[VolumeID |-> id, Type |-> k[1], ExtraAnnotationData |-> k[2]] :
       id \in IdDomain,
       k \in {<<<<"highlight">>, Null>>, <<<<"markup">>, <<"svg">>>>}}

\* tables of at most MaxStored rows; ContentID is the key of content
StoredTables ==
    {t \in UNION {[1..n -> StoredRows] : n \in 0..MaxStored} :
       \A i \in 1..Len(t), j \in 1..Len(t) :
          i # j => t[i].ContentID # t[j].ContentID}

MarkTables == UNION {[1..n -> StoredMarks] : n \in 0..MaxStored}

InitLookup ==
    /\ SyncQuiet /\ LockStart
    /\ content \in StoredTables
    /\ Bookmark \in MarkTables
    /\ out = NoOut

\* GET /books/{book_id}/highlights
GetBookHighlights ==
    /\ out = NoOut
    /\ \E book_id \in IdDomain :
         out' = [call |-> "highlights", book_id |-> book_id,
                 answer |-> get_book_highlights(Bookmark, book_id)]
    /\ UNCHANGED <<content, Bookmark>>
    /\ UNCHANGED nonkobo

\* GET /books/{book_id}/markups
GetBookMarkups ==
    /\ out = NoOut
    /\ \E book_id \in IdDomain :
         out' = [call |-> "markups", book_id |-> book_id,
                 answer |-> get_book_markups(Bookmark, book_id)]
    /\ UNCHANGED <<content, Bookmark>>
    /\ UNCHANGED nonkobo

\* GET /books/{book_id}
GetBookDetails ==
    /\ out = NoOut
    /\ \E book_id \in IdDomain :
         out' = [call |-> "details", book_id |-> book_id,
                 answer |-> get_book_details(content, book_id)]
    /\ UNCHANGED <<content, Bookmark>>
    /\ UNCHANGED nonkobo

NextLookup == GetBookHighlights \/ GetBookMarkups \/ GetBookDetails

SpecLookup == InitLookup /\ [][NextLookup]_vars

\* ------------------------------------------------ chapter-wide progress
\* ChapterProgress and TrueChapterProgress are fractions; a raw progress
\* is held in thousandths
Scale == 1000

\* a fraction n/d; d = 0 stands for None
Ratio(n, d) == [n |-> n, d |-> d]

Unavailable == Ratio(0, 0)

IsDigit(ch) == ch \in {"0", "1", "2", "3", "4", "5", "6", "7", "8", "9"}

\* \d+ from position i: the longest run of digits
RECURSIVE DigitRun(_, _)
DigitRun(x, i) ==
    IF i <= Len(x) /\ IsDigit(x[i]) THEN <<x[i]>> \o DigitRun(x, i + 1)
    ELSE <<>>

\* re.search(r'part\d+', content_id) from position k: the leftmost match,
\* <<>> when there is none
RECURSIVE SearchFrom(_, _)
SearchFrom(x, k) ==
    IF k + 4 > Len(x) THEN <<>>
    ELSE IF SubSeq(x, k, k + 3) = <<"p", "a", "r", "t">> /\ IsDigit(x[k + 4])
         THEN <<"p", "a", "r", "t">> \o DigitRun(x, k + 4)
    ELSE SearchFrom(x, k + 1)

part_match(content_id) == SearchFrom(content_id, 1)

SetMin(S) == CHOOSE m \in S : \A n \in S : m <= n

SetMax(S) == CHOOSE m \in S : \A n \in S : m >= n

\* SELECT MIN(VolumeIndex), MAX(VolumeIndex) FROM content WHERE BookID = ?
\* AND ContentID LIKE '%part_number%' AND Depth = 0; known is false when
\* no row matches
chapter_range(table, book_id, part_number) ==
    LET idx == {table[i].VolumeIndex : i \in
                  {j \in 1..Len(table) :
                     /\ Eq(table[j].BookID, book_id)
                     /\ LIKE(table[j].ContentID,
                             <<"%">> \o part_number \o <<"%">>)
                     /\ table[j].Depth = 0}}
    IN IF idx = {} THEN [known |-> FALSE, MinIndex |-> 0, MaxIndex |-> 0]
       ELSE [known |-> TRUE, MinIndex |-> SetMin(idx), MaxIndex |-> SetMax(idx)]

\* the first loop: chapter_ranges, the pairs of a part a bookmark is in and
\* the range of the part, when the query returned one
chapter_ranges(table, bookmarks, book_id) ==
    LET parts == {part_match(bookmarks[i].ContentID) : i \in
                    {j \in 1..Len(bookmarks) :
                       /\ bookmarks[j].ContentID # Null
                       /\ bookmarks[j].ContentID # <<>>
                       /\ part_match(bookmarks[j].ContentID) # <<>>}}
    IN {pr \in {<<p, chapter_range(table, book_id, p)>> : p \in parts} :
          pr[2].known}

\* part_number in chapter_ranges
InRanges(part_number, ranges) == \E pr \in ranges : pr[1] = part_number

\* chapter_ranges[part_number]
RangeIn(part_number, ranges) ==
    (CHOOSE pr \in ranges : pr[1] = part_number)[2]

\* the number of sections without the section the range starts at
total_sections_Span(chapter_start, chapter_end) == chapter_end - chapter_start

total_sections(chapter_start, chapter_end) == chapter_end - chapter_start + 1

\* max(0.0, min(1.0, true_progress))
Clamp(q) ==
    IF q.n < 0 THEN Ratio(0, 1) ELSE IF q.n > q.d THEN Ratio(1, 1) ELSE q

\* the raw progress, which starts again in every section
TrueChapterProgress_Raw(bookmark, ranges) ==
    IF \/ bookmark.ContentID = Null \/ bookmark.ChapterProgress = None
       \/ ~InRanges(part_match(bookmark.ContentID), ranges)
    THEN Unavailable
    ELSE Ratio(bookmark.ChapterProgress, Scale)

\* the second loop, for one bookmark
TrueChapterProgress(bookmark, ranges) ==
    LET content_id == bookmark.ContentID
        section_progress == bookmark.ChapterProgress
        volume_index == bookmark.VolumeIndex
    IN IF \/ content_id = Null \/ content_id = <<>>
          \/ section_progress = None \/ volume_index = None
       THEN Unavailable
       ELSE IF ~InRanges(part_match(content_id), ranges)
       THEN Unavailable
       ELSE LET range == RangeIn(part_match(content_id), ranges)
                chapter_start == range.MinIndex
                total == total_sections(range.MinIndex, range.MaxIndex)
                section_position == volume_index - chapter_start
            IN IF total <= 0 THEN Ratio(section_progress, Scale)
               ELSE Clamp(Ratio(section_position * Scale + section_progress,
                                total * Scale))

\* a ChapterProgress that is no number (SQLite stores any type in any
\* column)
Text == -2

\* the second loop raises at this bookmark: section_position +
\* section_progress is reached with a section_progress that is no number
Raises(bookmark, ranges) ==
    /\ bookmark.ContentID # Null /\ bookmark.ContentID # <<>>
    /\ bookmark.ChapterProgress = Text /\ bookmark.VolumeIndex # None
    /\ InRanges(part_match(bookmark.ContentID), ranges)

\* a bookmark with its TrueChapterProgress
Enriched(bookmark, progress) ==
    [ContentID |-> bookmark.ContentID,
     ChapterProgress |-> bookmark.ChapterProgress,
     VolumeIndex |-> bookmark.VolumeIndex,
     TrueChapterProgress |-> progress]

\* what a run of _calculate_chapter_progress leaves: the bookmarks it
\* returns, its chapter_ranges, and whether its except branch ran
Ran(bookmarks, ranges, raised) ==
    [bookmarks |-> bookmarks, chapter_ranges |-> ranges, raised |-> raised]

\* the value of an expression that is computed once
Once(S) == CHOOSE x \in S : TRUE

\* an exception that leaves the values computed before it
calculate_chapter_progress_KeepComputed(table, bookmarks, book_id) ==
    Once({Ran([i \in 1..Len(bookmarks) |->
                 Enriched(bookmarks[i],
                          IF \E k \in 1..i : Raises(bookmarks[k], ranges)
                          THEN Unavailable
                          ELSE TrueChapterProgress(bookmarks[i], ranges))],
              ranges,
              \E k \in 1..Len(bookmarks) : Raises(bookmarks[k], ranges)) :
            ranges \in {chapter_ranges(table, bookmarks, book_id)}})

\* _calculate_chapter_progress: the first loop, then every bookmark with
\* its TrueChapterProgress; when the second loop raises, the except branch
\* sets the TrueChapterProgress of every bookmark to None
calculate_chapter_progress(table, bookmarks, book_id) ==
    Once({Ran([i \in 1..Len(bookmarks) |->
                 Enriched(bookmarks[i],
                          IF \E k \in 1..Len(bookmarks) :
                                Raises(bookmarks[k], ranges)
                          THEN Unavailable
                          ELSE TrueChapterProgress(bookmarks[i], ranges))],
              ranges,
              \E k \in 1..Len(bookmarks) : Raises(bookmarks[k], ranges)) :
            ranges \in {chapter_ranges(table, bookmarks, book_id)}})

\* FROM Bookmark b LEFT JOIN content c ON c.ContentID = b.ContentID: the
\* keys of the row that come from c are NULL when no row of content has
\* the bookmark's ContentID
Joined(table, b) ==
    LET cs == {i \in 1..Len(table) : Eq(table[i].ContentID, b.ContentID)}
    IN [ContentID |-> IF cs = {} THEN Null
                      ELSE table[CHOOSE i \in cs : TRUE].ContentID,
        VolumeIndex |-> IF cs = {} THEN None
                        ELSE table[CHOOSE i \in cs : TRUE].VolumeIndex,
        ChapterProgress |-> b.ChapterProgress]

\* the rows of a result set, joined
RECURSIVE JoinAll(_, _)
JoinAll(table, rows) ==
    IF rows = <<>> THEN <<>>
    ELSE <<Joined(table, Head(rows))>> \o JoinAll(table, Tail(rows))

\* KoboService.get_highlights, with the progress of every row
Highlights(table, marks, book_id) ==
    Once({calculate_chapter_progress(table, bookmarks, book_id) :
            bookmarks \in
               {JoinAll(table, KoboService_get_highlights(marks, book_id))}})

MaxSections == 3

MaxMarks == 2

\* the volume whose highlights are listed, and another one
Vol == <<"v">>

OtherVol == <<"w">>

\* VolumeIndex of the first row of content; the rows follow one another
FirstIndex == 10

\* the sections of the volume that are in a part: of part1, of part10
PartSections ==
    {[part |-> <<"p", "a", "r", "t", "1">>, BookID |-> Vol, Depth |-> 0],
     [part |-> <<"p", "a", "r", "t", "1", "0">>, BookID |-> Vol, Depth |-> 0]}

\* the other rows of content: a section outside any part, a nested entry
\* of part1, a section of part1 of another volume
OtherRows ==
    {[part |-> <<"x">>, BookID |-> Vol, Depth |-> 0],
     [part |-> <<"p", "a", "r", "t", "1">>, BookID |-> Vol, Depth |-> 1],
     [part |-> <<"p", "a", "r", "t", "1">>, BookID |-> OtherVol, Depth |-> 0]}

SectionKinds == PartSections \cup OtherRows

\* the ContentID of the i-th row of content
SectionId(part, i) == part \o <<"_", Digit(i)>>

Sections(kinds) ==
    [i \in 1..Len(kinds) |->
       [ContentID |-> SectionId(kinds[i].part, i), BookID |-> kinds[i].BookID,
        Depth |-> kinds[i].Depth, VolumeIndex |-> FirstIndex + i - 1]]

\* content: the sections of the parts, with at most one other row among
\* them
SectionTables ==
    UNION {{Sections(kinds) : kinds \in
              {k \in [1..n -> SectionKinds] :
                 Cardinality({i \in 1..n : k[i] \in OtherRows}) <= 1}} :
             n \in 0..MaxSections}

\* raw progress: missing, no number, the start and the middle of a
\* section
Progresses == {None, Text, 0, 500}

\* a highlight made in row j of content, or in a section content has no
\* row for (j = 0)
Mark(table, j, r) ==
    [VolumeID |-> Vol, Type |-> <<"highlight">>, ExtraAnnotationData |-> Null,
     ContentID |-> IF j = 0 THEN <<"g", "o", "n", "e">> ELSE table[j].ContentID,
     ChapterProgress |-> r, at |-> j]

\* the highlights of a volume, made while reading forward
Marks(table) ==
    {m \in UNION {[1..n -> {Mark(table, j, r) :
                              j \in 1..Len(table), r \in Progresses}
                            \cup {Mark(table, 0, 500)}] :
                    n \in 0..MaxMarks} :
       \A i \in 1..(Len(m) - 1) :
          \/ m[i].at < m[i + 1].at
          \/ m[i].at = m[i + 1].at
             /\ m[i].ChapterProgress <= m[i + 1].ChapterProgress}

InitProgress ==
    /\ SyncQuiet /\ LockStart
    /\ content \in SectionTables
    /\ Bookmark \in Marks(content)
    /\ out = NoOut

\* KoboService.get_highlights(Vol)
ListHighlights ==
    /\ out = NoOut
    /\ \E ran \in {Highlights(content, Bookmark, Vol)} :
         out' = [call |-> "list", book_id |-> Vol, rows |-> ran.bookmarks,
                 chapter_ranges |-> ran.chapter_ranges,
                 raised |-> ran.raised]
    /\ UNCHANGED <<content, Bookmark>>
    /\ UNCHANGED nonkobo

NextProgress == ListHighlights

SpecProgress == InitProgress /\ [][NextProgress]_vars

\* ================================================================ claims
Exec(w) == op[w] \in {"tracked", "plain"}

Terminal == {"completed", "up_to_date", "error"}

Busy == sync_state.status \in {"checking", "downloading"}

\* ---- C1
\* an execution of sync_with_state_tracking that has set Checking and has
\* not yet made its terminal transition
InFlight(w) == op[w] = "tracked" /\ loc[w].wrote /\ pc[w] # "done"

\* C1: at most one sync execution is in flight at a time: of two
\* concurrent start-sync calls only one gets past the busy check
C1_SingleFlight == Cardinality({w \in Workers : InFlight(w)}) <= 1

\* ---- C2
DirectStep ==
    \E w \in Workers : Direct(w) /\ pc'[w] # pc[w]

\* a step that renames w's verified temporary file onto the replica path
RenameStep ==
    \E w \in Workers :
       /\ Exec(w) /\ pc[w] = "install"
       /\ tmp[w].exists /\ tmp[w].complete /\ tmp[w].size > 0
       /\ ~tmp'[w].exists
       /\ replica'.exists /\ replica'.complete
       /\ replica'.ver = tmp[w].ver /\ replica'.size = tmp[w].size

\* C2: while sync_if_needed and sync_with_state_tracking run, interleaved,
\* the file at the replica path changes only by the rename of a complete,
\* verified, non-empty temporary file: a reader sees the file as it was or
\* the complete download, never a partial one and never a missing one
C2_ReplicaAtomicity ==
    [][replica' # replica => DirectStep \/ RenameStep]_vars

\* two syncs interleaved: one has replaced the replica while the other
\* holds a temporary file
C2_Witness ==
    \E w \in Workers, v \in Workers :
       /\ w # v /\ Exec(w) /\ Exec(v)
       /\ loc[w].touched /\ replica.exists /\ replica.complete
       /\ pc[v] = "install" /\ tmp[v].exists

\* ---- C3
FailedAttempt(w) == Exec(w) /\ pc[w] = "done" /\ loc[w].exc # "none"

C4_NoStuckState ==
    \A w \in Workers :
       op[w] = "tracked" /\ pc[w] = "done" /\ loc[w].passed
          => loc[w].wrote /\ loc[w].last.status \in Terminal

\* the creation of the temporary file raised after Downloading was set
C4_Witness ==
    \E w \in Workers :
       /\ op[w] = "tracked" /\ pc[w] = "done" /\ loc[w].passed
       /\ loc[w].exc = "mkstemp failed"

\* ---- C5
Rank(status) ==
    CASE status = "idle" -> 0
      [] status = "checking" -> 1
      [] status = "downloading" -> 2
      [] OTHER -> 3

\* C5: the status never moves to an earlier stage, except that
\* check_and_sync resets it to Idle when it starts a new cycle
C5_Monotonic ==
    [][\/ Rank(sync_state'.status) >= Rank(sync_state.status)
       \/ lpc = "decide" /\ sync_state'.status = "idle"]_vars

\* ---- C6
\* C6: the file at the replica path is never a partially written one
C6_AtomicReplaceOnly == replica.exists => replica.complete

\* ---- C7
\* C7: after a successful sync during which the remote metadata did not
\* change, is_local_cache_stale() against that metadata is false
C7_StalenessIdempotence ==
    \A w \in Workers :
       Exec(w) /\ loc[w].result = "true" /\ loc[w].ver0 = remote.ver
          => ~is_local_cache_stale(loc[w].installed,
                                   get_b2_file_mtime("info", remote))

\* a stale replica was replaced by a file stamped with the remote timestamp
C7_Witness ==
    \E w \in Workers :
       /\ Exec(w) /\ loc[w].result = "true" /\ loc[w].ver0 = remote.ver
       /\ ToMs(loc[w].installed) = remote.ts
       /\ replica.exists /\ replica.mtime = loc[w].installed

\* ---- C8
\* the decision as the specification states it, in milliseconds
Decision(file, rem, avail) ==
    IF ~file.exists THEN TRUE
    ELSE IF ~avail THEN FALSE
    ELSE rem.ts > ToMs(file.mtime) + MsPerSecond

\* C8: every is_local_cache_stale() call returns true if there is no
\* replica, else false if the remote timestamp is unavailable, else whether
\* the upload timestamp is more than one second after the local mtime; and
\* the caller goes on to download exactly when it returned true
C8_FreshnessDecision ==
    [][/\ \A w \in Workers :
            Exec(w) /\ pc[w] = "check_stale" /\ pc'[w] # pc[w]
               => /\ last_check'.stale =
                        Decision(replica, remote, last_check'.avail)
                  /\ (pc'[w] \in {"prepare", "mkstemp"}) = last_check'.stale
       /\ (/\ lpc = "decide" /\ lpc' # lpc
           /\ sync_state.status \in {"completed", "up_to_date"})
             => /\ last_check'.stale =
                      Decision(replica, remote, last_check'.avail)
                /\ resp'.initiated = last_check'.stale]_vars

\* the remote timestamp is exactly one second after the local mtime: not
\* stale
C8_Witness ==
    /\ last_check.valid /\ last_check.avail /\ ~last_check.stale
    /\ replica.exists /\ remote.ts = ToMs(replica.mtime) + MsPerSecond

\* ---- C9
\* C9 as stated: the response to a request made while a sync is in flight
\* carries initiated = false and the in-flight state
C9_Original ==
    resp.valid /\ resp.message = "Sync already in progress"
       => ~resp.initiated /\ resp.status \in {"checking", "downloading"}

\* C9: a sync_with_state_tracking call made while the status is Checking or
\* Downloading returns false and changes nothing; a check_and_sync call
\* made then changes nothing, adds no task and answers initiated = false
\* with the state as it is when the response is built
C9_BusyNoOp ==
    [][/\ \A w \in Workers :
            pending' = pending - 1 /\ FirstFree(w) /\ Busy
               => /\ pc'[w] = "done" /\ loc'[w].result = "false"
                  /\ ~loc'[w].wrote /\ ~tmp'[w].exists
                  /\ sync_state' = sync_state /\ replica' = replica
                  /\ events' = events /\ last_check' = last_check
       /\ lpc = "idle" /\ lpc' # lpc /\ Busy
             => lpc' = "busy" /\ sync_state' = sync_state /\ pending' = pending
       /\ lpc = "busy" /\ lpc' # lpc
             => /\ ~resp'.initiated /\ resp'.status = sync_state.status
                /\ sync_state' = sync_state /\ pending' = pending
                /\ events' = events /\ last_check' = last_check]_vars

\* a task was refused at the busy check and a request was answered with
\* the in-flight state
C9_Witness ==
    /\ resp.valid /\ ~resp.initiated
    /\ resp.message = "Sync already in progress"
    /\ resp.status \in {"checking", "downloading"}
    /\ \E w \in Workers :
          op[w] = "tracked" /\ pc[w] = "done" /\ ~loc[w].passed

\* ---- C10
\* C10: a state-tracked sync in which a step raised returns false, and the
\* last transition it made is set_error: status Error, the error field
\* carrying the exception's message, progress None
C10_FailureBecomesError ==
    \A w \in Workers :
       op[w] = "tracked" /\ pc[w] = "done" /\ loc[w].exc # "none"
          => /\ loc[w].result = "false"
             /\ loc[w].last.status = "error"
             /\ loc[w].last.error \in {Str(loc[w].exc),
                                       DownloadFailed(loc[w].exc)}
             /\ loc[w].last.progress = NoneStr

\* the downloaded file was empty
C10_Witness ==
    \E w \in Workers :
       /\ op[w] = "tracked" /\ pc[w] = "done"
       /\ loc[w].exc = "Downloaded file is empty"
       /\ loc[w].last.error = DownloadFailed("Downloaded file is empty")

\* ---- C11
\* C11: sync_if_needed returns true exactly when the call put a freshly
\* downloaded file at the replica path; a call that returns false (not
\* stale, or a step failed) has not changed the replica, and no step of
\* sync_if_needed changes the sync state
C11_ReturnValue ==
    /\ [](\A w \in Workers :
            op[w] = "plain" /\ pc[w] = "done"
               => /\ loc[w].result \in {"true", "false"}
                  /\ (loc[w].result = "true") = loc[w].touched)
    /\ [][\A w \in Workers :
            op[w] = "plain" /\ pc'[w] # pc[w]
               => /\ sync_state' = sync_state
                  /\ replica' # replica
                        => /\ loc'[w].touched /\ loc'[w].result = "true"
                           /\ replica'.complete /\ replica'.ver = tmp[w].ver]_vars

\* one call returned true after replacing the replica, another returned
\* false after a failed step
C11_Witness ==
    \E w \in Workers, v \in Workers :
       /\ op[w] = "plain" /\ pc[w] = "done" /\ loc[w].result = "true"
       /\ loc[w].touched /\ replica.exists
       /\ op[v] = "plain" /\ pc[v] = "done" /\ loc[v].result = "false"
       /\ loc[v].exc # "none"

\* ---- C12
\* w's sync_with_state_tracking makes a SyncState transition in this step
Writes(w) ==
    op[w] = "tracked" /\ pc[w] # "done" /\ loc'[w].last # loc[w].last

\* C12: the statuses one sync_with_state_tracking call writes are Checking
\* first, then UpToDate (its check found the replica not stale), or
\* Downloading (its check found it stale) followed by Completed or Error,
\* or Error directly
C12_OrchestratorPath ==
    [][\A w \in Workers :
         /\ Writes(w) =>
              LET from == loc[w].last.status
                  to == loc'[w].last.status
              IN /\ ~loc[w].wrote => to = "checking"
                 /\ to = "checking" => ~loc[w].wrote
                 /\ loc[w].wrote /\ from = "checking"
                       => to \in {"up_to_date", "downloading", "error"}
                 /\ loc[w].wrote /\ from = "downloading"
                       => to \in {"completed", "error"}
                 /\ loc[w].wrote => from \in {"checking", "downloading"}
                 /\ to = "up_to_date"
                       => pc[w] = "check_stale" /\ ~last_check'.stale
                 /\ to = "downloading" => pc[w] = "prepare"
         /\ op[w] = "tracked" /\ pc'[w] = "prepare" /\ pc[w] # "prepare"
              => pc[w] = "check_stale" /\ last_check'.stale]_vars

\* Checking, Downloading, Completed
C12_Witness ==
    \E w \in Workers :
       /\ op[w] = "tracked" /\ pc[w] = "done" /\ loc[w].result = "true"
       /\ loc[w].last.status = "completed"

C13_SnapshotConsistency ==
    /\ [](\A t \in Threads :
            thread[t].ret.valid => View(thread[t].ret) = thread[t].ret.base)
    /\ [][\A t \in Threads :
            thread[t].ret.valid /\ thread'[t].ret = thread[t].ret
               => View(thread'[t].ret) = View(thread[t].ret)]_vars

\* a snapshot taken in Checking is still held, with every key set, after
\* the object has moved on to Downloading
C13_Witness ==
    /\ thread["loop"].ret.valid
    /\ thread["loop"].ret.val.status = <<"checking">>
    /\ thread["loop"].ret.val.file_size_mb = <<NoSize>>
    /\ obj.status = "downloading" /\ obj.file_size_mb = SomeSize

\* ---- C15
\* the top-level book rows of the replica
BookRows == {i \in 1..Len(content) : IsBook(content[i])}

\* the same (Title, Author) pair, two absent authors counting as equal
SamePair(r1, r2) ==
    /\ r1.Title = r2.Title
    /\ r1.Attribution = r2.Attribution

\* C15: in the full listing every (Title, Author) pair of the top-level
\* book rows has exactly one row, which is a book row of the pair with the
\* highest PercentRead and, among those, the most recent DateCreated
C15_Deduplication ==
    out.call = "list" /\ ~HasSearch(out.search) =>
       /\ \A k \in 1..Len(out.books) :
             \E i \in BookRows : out.books[k] = content[i]
       /\ \A i \in BookRows :
             /\ Cardinality({k \in 1..Len(out.books) :
                               SamePair(out.books[k], content[i])}) = 1
             /\ \A k \in 1..Len(out.books) :
                   SamePair(out.books[k], content[i])
                      => \/ out.books[k].PercentRead > content[i].PercentRead
                         \/ /\ out.books[k].PercentRead = content[i].PercentRead
                            /\ out.books[k].DateCreated >= content[i].DateCreated

\* three rows, two of one pair at equal progress and one with no author:
\* the listing is the more recent of the two, then the third
C15_Witness ==
    /\ out.call = "list" /\ out.search = Null
    /\ Len(content) = 3
    /\ SamePair(content[1], content[2])
    /\ content[1].PercentRead = content[2].PercentRead
    /\ content[1].DateCreated < content[2].DateCreated
    /\ content[3].Attribution = Null /\ content[3].PercentRead = 0
    /\ out.books = <<content[2], content[3]>>

\* ---- C16
\* C16: in every listing rows with progress > 0 come before rows with
\* progress 0, progress never increases along the listing, and rows of
\* equal progress are in ascending order of their lower-cased titles
C16_ListingOrder ==
    out.call \in {"list", "books"} =>
       \A k \in 1..Len(out.books), l \in 1..Len(out.books) :
          k < l =>
             LET x == out.books[k]
                 y == out.books[l]
             IN /\ y.PercentRead > 0 => x.PercentRead > 0
                /\ x.PercentRead >= y.PercentRead
                /\ x.PercentRead = y.PercentRead
                      => ~StrLess(lower(y.Title), lower(x.Title))

\* a listing of three: the highest progress first although its title
\* sorts last, then two of equal progress by title, "ab" before "B"
C16_Witness ==
    /\ out.call = "list" /\ Len(out.books) = 3
    /\ out.books[1].PercentRead > out.books[2].PercentRead
    /\ out.books[1].Title = <<"b">>
    /\ out.books[2].PercentRead = out.books[3].PercentRead
    /\ out.books[2].Title = <<"a", "b">> /\ out.books[3].Title = <<"B">>

\* ---- C17
\* text x contains the term, letters compared in either case
Contains(x, term) ==
    /\ x # Null
    /\ \E i \in 1..(Len(x) - Len(term) + 1) :
          lower(SubSeq(x, i, i + Len(term) - 1)) = lower(term)

\* the deduplicated books whose Title or Author contains the term
Matching(term) ==
    {r \in {content[i] : i \in Selected(content, Null)} :
       Contains(r.Title, term) \/ Contains(r.Attribution, term)}

\* C17: with a search term, the listing holds exactly the deduplicated
\* books whose Title or Author contains the term, and the total of the
\* page response is their number
C17_SearchConsistency ==
    /\ out.call = "list" /\ HasSearch(out.search)
         => {out.books[k] : k \in 1..Len(out.books)} = Matching(out.search)
    /\ out.call = "books" /\ HasSearch(out.search)
         => /\ out.total = Cardinality(Matching(out.search))
            /\ \A k \in 1..Len(out.books) :
                  out.books[k] \in Matching(out.search)

\* ---- C18
\* the rows of pages first..last of the page size and search of the
\* response
RECURSIVE Pages(_, _)
Pages(first, last) ==
    IF first > last THEN <<>>
    ELSE KoboService_get_books(content, out.page_size,
                               (first - 1) * out.page_size, out.search)
            \o Pages(first + 1, last)

\* the smallest n with n * page_size >= total
Ceil(total, page_size) ==
    CHOOSE n \in 0..total : n * page_size >= total
                               /\ (n - 1) * page_size < total

\* C18: the rows of the page are those from offset (page-1)*page_size of
\* the full listing; total_pages is ceil(total / page_size), and 1 when
\* total is 0; pages 1..total_pages in order are the full listing
C18_Pagination ==
    out.call = "books" =>
       LET full == KoboService_get_books(content, None, None, out.search)
           from == (out.page - 1) * out.page_size
       IN /\ out.books =
                [k \in 1..(IF Len(full) - from < 0 THEN 0
                           ELSE IF Len(full) - from < out.page_size
                                THEN Len(full) - from
                                ELSE out.page_size) |-> full[from + k]]
          /\ out.total_pages =
                IF out.total = 0 THEN 1 ELSE Ceil(out.total, out.page_size)
          /\ Pages(1, out.total_pages) = full

\* ---- C19
\* the rows stored under an identifier, for the lookup made
StoredUnder(id) ==
    CASE out.call = "highlights" -> KoboService_get_highlights(Bookmark, id)
      [] out.call = "markups" -> KoboService_get_markups(Bookmark, id)
      [] out.call = "details" -> KoboService_get_book_by_id(content, id)

\* C19: a lookup returns rows whenever rows are stored under the
\* identifier as received or under its percent-decoded form; the form
\* tried first is the one returned when it has rows, otherwise the other
\* form is tried; a book lookup answers 404 only when neither form has a
\* row
C19_LookupFallback ==
    out.call \in {"highlights", "markups", "details"} =>
       LET id == out.book_id
           alt == unquote(out.book_id)
           a == out.answer
           first == a.tried[1]
           other == IF first = id THEN alt ELSE id
       IN /\ first = IF out.call = "details" THEN alt ELSE id
          /\ (StoredUnder(id) # <<>> \/ StoredUnder(alt) # <<>>)
                => a.rows # <<>>
          /\ StoredUnder(first) # <<>>
                => a.rows = StoredUnder(first) /\ Len(a.tried) = 1
          /\ StoredUnder(first) = <<>>
                => /\ a.rows = StoredUnder(other)
                   /\ other # first => a.tried = <<first, other>>
          /\ out.call = "details"
                => (a.status = HttpNotFound)
                      = (StoredUnder(id) = <<>> /\ StoredUnder(alt) = <<>>)

\* highlights stored under the decoded identifier are found through the
\* encoded one, at the second try
C19_Witness ==
    /\ out.call = "highlights"
    /\ out.book_id = <<"a", "%", "2", "0", "b">>
    /\ out.answer.tried = <<out.book_id, <<"a", " ", "b">>>>
    /\ out.answer.rows # <<>>

\* ---- C20
\* row k of a listing has its inputs and a part whose range is known
Reconstructed(k) ==
    /\ out.rows[k].ContentID # Null
    /\ out.rows[k].ChapterProgress # None
    /\ InRanges(part_match(out.rows[k].ContentID), out.chapter_ranges)

\* the range of the part of row k of a listing
RangeOf(k) ==
    IF Reconstructed(k)
    THEN RangeIn(part_match(out.rows[k].ContentID), out.chapter_ranges)
    ELSE [known |-> FALSE, MinIndex |-> 0, MaxIndex |-> 0]

\* the reconstruction of a listing raised
Failed == out.raised

\* C20: a bookmark at section index i with raw progress r, in a part whose
\* sections span [min, max], gets ((i - min) + r) / (max - min + 1)
\* clamped to [0, 1]; every TrueChapterProgress that is not None lies in
\* [0, 1]
C20_ProgressReconstruction ==
    out.call = "list" =>
       \A k \in 1..Len(out.rows) :
          LET b == out.rows[k]
              t == b.TrueChapterProgress
              range == RangeOf(k)
              num == (b.VolumeIndex - range.MinIndex) * Scale
                        + b.ChapterProgress
              den == (range.MaxIndex - range.MinIndex + 1) * Scale
          IN /\ t.d # 0 => t.d > 0 /\ 0 <= t.n /\ t.n <= t.d
             /\ (range.known /\ ~Failed) =>
                  /\ t.d > 0
                  /\ num < 0 => t.n = 0
                  /\ num > den => t.n = t.d
                  /\ (0 <= num /\ num <= den) => t.n * den = num * t.d

\* a part of sections 10, 11, 12 and a bookmark halfway through section
\* 11: the progress is one half
C20_Witness ==
    /\ out.call = "list"
    /\ \E k \in 1..Len(out.rows) :
          /\ Reconstructed(k)
          /\ RangeOf(k) = [known |-> TRUE, MinIndex |-> 10, MaxIndex |-> 12]
          /\ out.rows[k].VolumeIndex = 11
          /\ out.rows[k].ChapterProgress = 500
          /\ out.rows[k].TrueChapterProgress.n * 2
                = out.rows[k].TrueChapterProgress.d

\* ---- C21
\* C21: a listing returns every row the query selected; when the
\* reconstruction raises, every row's TrueChapterProgress is None, the
\* rows computed before the exception included; when it does not raise, a
\* row's TrueChapterProgress is None exactly when the row has no part
\* identifier, no range or a missing input, and a number otherwise
C21_AllOrNothing ==
    out.call = "list" =>
       /\ Len(out.rows) = Len(KoboService_get_highlights(Bookmark, out.book_id))
       /\ Failed => \A k \in 1..Len(out.rows) :
                       out.rows[k].TrueChapterProgress = Unavailable
       /\ ~Failed => \A k \in 1..Len(out.rows) :
                        IF Reconstructed(k)
                        THEN out.rows[k].TrueChapterProgress.d > 0
                        ELSE out.rows[k].TrueChapterProgress = Unavailable

\* the second row raises after the first one had its value computed, and
\* both rows are returned with None
C21_Witness ==
    /\ out.call = "list"
    /\ Len(out.rows) = 2
    /\ Reconstructed(1) /\ out.rows[1].ChapterProgress = 500
    /\ Reconstructed(2) /\ out.rows[2].ChapterProgress = Text
    /\ \A k \in 1..2 : out.rows[k].TrueChapterProgress = Unavailable

\* ---- C28
\* rows a and b of a listing are in the same part, both with a raw
\* progress in [0, 1], and a is not after b in reading order
InReadingOrder(a, b) ==
    /\ Reconstructed(a) /\ Reconstructed(b)
    /\ part_match(out.rows[a].ContentID) = part_match(out.rows[b].ContentID)
    /\ out.rows[a].ChapterProgress \in 0..Scale
    /\ out.rows[b].ChapterProgress \in 0..Scale
    /\ \/ out.rows[a].VolumeIndex < out.rows[b].VolumeIndex
       \/ /\ out.rows[a].VolumeIndex = out.rows[b].VolumeIndex
          /\ out.rows[a].ChapterProgress <= out.rows[b].ChapterProgress

\* C28: of two bookmarks of one part, the one at the earlier section, or
\* at the same section with the smaller or equal raw progress, has a
\* TrueChapterProgress that is less than or equal to the other's
C28_ReadingOrder ==
    (out.call = "list" /\ ~Failed) =>
       \A a \in 1..Len(out.rows), b \in 1..Len(out.rows) :
          InReadingOrder(a, b) =>
             /\ out.rows[a].TrueChapterProgress.d > 0
             /\ out.rows[b].TrueChapterProgress.d > 0
             /\ out.rows[a].TrueChapterProgress.n
                   * out.rows[b].TrueChapterProgress.d
                <= out.rows[b].TrueChapterProgress.n
                      * out.rows[a].TrueChapterProgress.d

\* a bookmark halfway through a section and one at the start of the next
\* section of the part: the raw progress goes back, the reconstructed one
\* goes forward
C28_Witness ==
    /\ out.call = "list" /\ ~Failed
    /\ \E a \in 1..Len(out.rows), b \in 1..Len(out.rows) :
          /\ InReadingOrder(a, b)
          /\ out.rows[a].VolumeIndex + 1 = out.rows[b].VolumeIndex
          /\ out.rows[a].ChapterProgress = 500
          /\ out.rows[b].ChapterProgress = 0
          /\ out.rows[a].TrueChapterProgress.n
                * out.rows[b].TrueChapterProgress.d
             < out.rows[b].TrueChapterProgress.n
                  * out.rows[a].TrueChapterProgress.d

\* ---- C22
\* C22: under fair scheduling every check_and_sync that answers
\* initiated = true is followed by a state whose status is completed,
\* up_to_date or error, where is_busy() is false
C22_SyncFinishes ==
    (resp.valid /\ resp.initiated)
       ~> (sync_state.status \in Terminal /\ ~is_busy(sync_state))

\* a request was answered initiated = true and the sync it started has
\* returned, leaving a final status
C22_Witness ==
    /\ resp.valid /\ resp.initiated
    /\ pending = 0
    /\ \E w \in Workers :
          /\ op[w] = "tracked" /\ pc[w] = "done"
          /\ loc[w].wrote /\ loc[w].last.status = sync_state.status
    /\ sync_state.status \in Terminal

\* ---- C23
\* when version ver of the remote object was uploaded, in milliseconds
\* (ver >= 1: the first is there at start-up, the others come one tick
\* apart)
UploadedAt(ver) ==
    IF ver = 1 THEN UploadedMs ELSE StartMs + (ver - 1) * TickMs

\* the replica is the file the sync that w ran has installed
InstalledBy(w) ==
    /\ Exec(w) /\ loc[w].result = "true" /\ loc[w].touched
    /\ replica.exists /\ replica.complete
    /\ replica.mtime = loc[w].installed

\* C23: after a sync has installed the replica, when the remote object's
\* upload timestamp is more than one second after the upload of the
\* version the replica holds, and the Blob Store gives the timestamp,
\* is_local_cache_stale() is true
C23_NoMissedUpdate ==
    ((\E w \in Workers : InstalledBy(w)) /\ replica.ver >= 1
       /\ remote.ts > UploadedAt(replica.ver) + MsPerSecond)
       => is_local_cache_stale(get_local_file_mtime(replica),
                               get_b2_file_mtime("info", remote))

\* ---- C24
\* w's sync_with_state_tracking sets the status to Completed in this step
SetsCompleted(w) ==
    /\ op[w] = "tracked" /\ pc[w] # "done"
    /\ loc'[w].last # loc[w].last
    /\ loc'[w].last.status = "completed"

\* C24: a sync_with_state_tracking call sets Completed only after it has
\* moved its download, verified to be there and not empty, onto the replica
\* path; the step that sets Completed leaves the replica as it is
C24_CompletedMeansReplaced ==
    [][\A w \in Workers :
          SetsCompleted(w) =>
             /\ loc[w].touched
             /\ loc[w].size > 0
             /\ TimeGt(loc[w].installed, Zero)
             /\ sync_state'.status = "completed"
             /\ replica' = replica]_vars

\* a sync has set Completed and the replica is the file it installed
C24_Witness ==
    \E w \in Workers :
       /\ op[w] = "tracked" /\ pc[w] = "done"
       /\ loc[w].last.status = "completed"
       /\ sync_state.status = "completed"
       /\ loc[w].touched
       /\ replica.exists /\ replica.complete
       /\ replica.mtime = loc[w].installed
       /\ replica.size = loc[w].size

\* ---- C25
\* the coupling of progress, error and last_sync_time with the status
Coupled(st) ==
    /\ (st.progress = "100.0") = (st.status = "completed")
    /\ (st.progress = "0.0") = (st.status = "downloading")
    /\ st.status \notin {"completed", "downloading"} => st.progress = NoneStr
    /\ (st.error # NoError) = (st.status = "error")
    /\ st.status = "completed" => st.last_sync_time # NoTime

\* C25: whenever no SyncState method is running, after any sequence of
\* setter calls, progress is 100 exactly in Completed, 0 exactly in
\* Downloading and None otherwise, error is set exactly in Error, and
\* Completed has a last_sync_time
C25_FieldCoupling == holder = "none" => Coupled(obj)

\* a reset after a completed sync: Idle with no error and no progress
C25_Witness ==
    /\ holder = "none" /\ ncalls >= 2
    /\ obj.status = "idle" /\ obj.error = NoError
    /\ \A t \in Threads : thread[t].pc = "idle"
    /\ obj.last_sync_time # NoTime

\* ---- C26
Syncing == {"checking", "downloading"}

\* the claim as stated: is_syncing follows the status field of the same
\* response, whatever happens between the two calls
C26_Original ==
    response.valid =>
       /\ response.is_syncing = (response.state.status \in Syncing)
       /\ response.needs_reload = (response.state.status = "completed")

\* C26: in every response of GET /sync-status needs_reload is true exactly
\* when its status field is completed; is_syncing is true exactly when
\* that status is checking or downloading, provided the background sync
\* made no transition between get_state() and is_busy()
C26_StatusResponse ==
    response.valid =>
       /\ response.needs_reload = (response.state.status = "completed")
       /\ ~response.moved =>
            response.is_syncing = (response.state.status \in Syncing)

\* a response built while a background sync is downloading
C26_Witness ==
    /\ response.valid /\ ~response.moved
    /\ response.state.status = "downloading" /\ response.is_syncing
    /\ ~response.needs_reload
    /\ \E w \in Workers : op[w] # "idle"

\* ---- C27
\* C27: for every replica and every search term, get_total_books returns
\* the number of rows get_books returns for the same search without limit
\* and offset
C27_CountAgreesWithListing ==
    out.call = "count" =>
       out.total = Len(KoboService_get_books(content, None, None, out.search))

\* ---- C30
\* C30: last_sync_time changes only in a step that sets Completed; such a
\* step sets it, and never to an earlier time; every other transition
\* (Checking, Downloading, UpToDate, Error, the reset to Idle) leaves it
\* as it is
C30_HistoryPreserved ==
    [][sync_state'.last_sync_time # sync_state.last_sync_time =>
          /\ \E w \in Workers : SetsCompleted(w)
          /\ sync_state'.status = "completed"
          /\ sync_state'.last_sync_time # NoTime
          /\ sync_state'.last_sync_time > sync_state.last_sync_time]_vars

\* a sync has completed and a later request has reset the state to Idle:
\* the time of the completed sync is still there
C30_Witness ==
    /\ sync_state.last_sync_time # NoTime
    /\ sync_state.status \in {"idle", "checking", "error"}
    /\ \E w \in Workers : loc[w].last.status = "completed"

\* ---- C29
\* the blocking sync_if_needed of start-up has been called
Called == \E w \in Workers : op[w] = "plain"

\* C29: the application is ready only with a file at the canonical path;
\* with no replica at start-up sync_if_needed is run, and start-up aborts
\* exactly when it returned false or the file is absent afterwards; with
\* a replica at start-up nothing is downloaded and the file stays as it was
C29_StartupRequiresReplica ==
    /\ startup.pc = "ready" => replica.exists
    /\ startup.pc \in {"verify", "ready", "aborted"}
          /\ ~startup.replica0.exists
          => Called /\ startup.sync_result # "none"
    /\ startup.pc = "aborted" =>
          /\ ~startup.replica0.exists
          /\ startup.sync_result = "false" \/ startup.final_mtime = Zero
    /\ startup.sync_result = "false" => startup.pc = "aborted"
    /\ startup.pc = "ready" /\ ~startup.replica0.exists =>
          startup.sync_result = "true" /\ startup.final_mtime # Zero
    /\ startup.pc # "start" /\ startup.replica0.exists =>
          /\ startup.pc = "ready"
          /\ ~Called
          /\ replica = startup.replica0
          /\ \A w \in Workers : ~tmp[w].exists

\* ready after the initial download of a start-up that found no replica
C29_Witness ==
    /\ startup.pc = "ready"
    /\ ~startup.replica0.exists
    /\ replica.exists
    /\ \E w \in Workers : loc[w].touched

====
